---------------------------- MODULE Spec2Model ----------------------------
(***************************************************************************)
(* A model of the go-sdl2 DLL binding (package sdl, Windows).               *)
(*                                                                         *)
(* The parts of the binding are modelled each with its own specification  *)
(* over the same variables:                                                *)
(*                                                                         *)
(*   Spec        the event watches: the host registry, the native          *)
(*               library's watcher list and the trampoline the native      *)
(*               library calls back into.                                  *)
(*   SpecHints   the hint callbacks: the host registry, the native hint    *)
(*               table and the hint trampoline.                            *)
(*   SpecMarshal the per-architecture wrappers: how arguments are packed   *)
(*               into machine words and how the raw return words become    *)
(*               the host result and error.                                *)
(*   SpecRW      the 64-bit stream primitives: a value written through the *)
(*               wrapper of one architecture and read back through it.     *)
(*   SpecDecode  goEvent: the decoding of a native event record.           *)
(*   SpecHost, SpecRegistry, SpecRace                                      *)
(*               Main and Do, the registry of event watches, and           *)
(*               DelEventWatch running against the trampoline.             *)
(*   SpecStream, SpecMem                                                   *)
(*               the native calls each wrapper makes, and a memory stream  *)
(*               cell by cell.                                             *)
(*   SpecFilter, SpecAlloc, SpecDestroy                                    *)
(*               SetEventFilter and handle allocation statement by         *)
(*               statement, and the last-error text around Destroy.        *)
(*   SpecEnclose, SpecVersion, SpecLine                                    *)
(*               the pure functions EnclosePoints, VERSION_ATLEAST and     *)
(*               Rect.IntersectLine.                                       *)
(*                                                                         *)
(* Strings are sequences of bytes.  A C string is a pointer to memory: the *)
(* bytes found at the address, or the null pointer.                        *)
(* Machine integers are scaled: a 32-bit quantity has HalfBits bits and a  *)
(* 64-bit quantity 2*HalfBits bits, with the arithmetic of the code        *)
(* (truncation, shifts, wrap-around) done modulo these widths.             *)
(***************************************************************************)
EXTENDS Integers, Sequences, FiniteSets, TLC

VARIABLES
    \* ---- host-side state of the event watches (sdl_windows.go 4569-4574)
    eventWatches,          \* map[EventWatchHandle]*eventFilterCallbackContext
    lastEventWatchHandle,  \* next handle to try
    \* ---- host-side state of the hint callbacks (sdl_windows.go 1888)
    hintCallbacks,         \* map[string]HintCallbackAndData
    \* ---- the native library's side
    nativeWatchers,        \* (callback, userdata) pairs given to SDL_AddEventWatch, in order
    nativeHints,           \* hint name -> [value, watched]
    \* ---- what the last operation did
    op,                    \* the operation and what it returned
    calls,                 \* the host handlers the operation invoked, in order
    \* ---- history of the registrations (what the callers were told)
    watchLive,             \* handle -> [filter, userdata] returned by AddEventWatch, not deleted
    watchDeleted,          \* handles passed to DelEventWatch and not handed out again
    funcLive,              \* registrations made through AddEventWatchFunc, not deleted
    hintLive,              \* name -> [callback, data] given to AddHintCallback, not deleted
    hintDeleted,           \* name -> [callback, data] whose registration was deleted
    \* ---- the marshalling layer
    mcall,                 \* the last wrapper call: its words, return words and result
    lastError,             \* the native library's last-error text
    rwcell,                \* the two halves of the 64-bit value the native stream holds
    rwwritten,             \* the value the host last wrote to the stream
    \* ---- the event decoder
    cevent,                \* the native event record
    gevent,                \* the decoded event
    \* ---- the rest of the host-side state
    callInMain,            \* var callInMain: what Do hands its closure to
    eventFilterCache,      \* var eventFilterCache: the filter given to SetEventFilter
    mainCalled,            \* whether Main has been called
    logOutput,             \* what was last given to LogSetOutputFunction
    \* ---- DelEventWatch and the trampoline, step by step on two threads
    dpc,                   \* the host thread inside DelEventWatch: [pc, handle]
    tpc,                   \* the native thread inside the trampoline: [pc, handle, context]
    \* ---- the wrappers seen from the native side
    scall,                 \* the last wrapper call: the native calls it made, in order
    \* ---- a memory stream
    mrw,                   \* its cells and position, and what the caller wrote and read
    \* ---- SetEventFilter, step by step, and the native event filter
    nativeFilter,          \* whether the native library has the filter trampoline installed
    spc,                   \* the host thread inside SetEventFilter: [pc, filter]
    fcall,                 \* the last call of the filter trampoline
    \* ---- newEventFilterCallbackContext, step by step on several threads
    mutex,                 \* lastEventWatchHandleMutex: 0, or the thread that holds it
    rpc,                   \* thread -> where it stands in AddEventWatch, and its handle
    \* ---- the pure functions
    ecall,                 \* the last call of EnclosePoints: arguments and results
    vcall,                 \* the last call of VERSION_ATLEAST: arguments and result
    lcall                  \* Rect.IntersectLine, statement by statement: its locals

watchVars == <<eventWatches, lastEventWatchHandle, nativeWatchers,
               watchLive, watchDeleted, funcLive>>
hintVars == <<hintCallbacks, nativeHints, hintLive, hintDeleted>>
opVars == <<op, calls>>
marshalVars == <<mcall, lastError, rwcell, rwwritten>>
decodeVars == <<cevent, gevent>>
hostVars == <<callInMain, eventFilterCache, mainCalled, logOutput>>
raceVars == <<dpc, tpc>>
streamVars == <<scall>>
memVars == <<mrw>>
filterVars == <<nativeFilter, spc, fcall>>
allocVars == <<mutex, rpc>>
pureVars == <<ecall, vcall, lcall>>
tailVars == <<filterVars, allocVars, pureVars>>
extraVars == <<raceVars, streamVars, memVars, tailVars>>
moreVars == <<hostVars, extraVars>>
vars == <<watchVars, hintVars, opVars, marshalVars, decodeVars, moreVars>>

----------------------------------------------------------------------------
(* Bounds *)

\* The handle space: EventWatchHandle is a uintptr and lastEventWatchHandle++
\* wraps around at its end.
NumHandles == 4
\* The most watches registered at one time (below NumHandles: the search for
\* a free handle needs one).
MaxWatches == 2

Handles == 0 .. (NumHandles - 1)

Filters == {"f1", "f2"}
FilterFuncs == {"fn1"}
UserData == {"test", "other"}

----------------------------------------------------------------------------
(* Strings and C strings *)

NullPtr == [null |-> TRUE, bytes |-> <<>>]

\* append([]byte(s), 0) and the address of its first byte
CString(s) == [null |-> FALSE, bytes |-> Append(s, 0)]

RECURSIVE ScanToNul(_)
ScanToNul(bytes) ==
    IF bytes = <<>> \/ Head(bytes) = 0
    THEN <<>>
    ELSE <<Head(bytes)>> \o ScanToNul(Tail(bytes))

sdlToGoString(p) == IF p.null THEN <<>> ELSE ScanToNul(p.bytes)

----------------------------------------------------------------------------
(* Event tags (the binding's own table) *)

FIRSTEVENT == 0
QUIT == 256
APP_TERMINATING == 256 + 1
APP_LOWMEMORY == 256 + 2
APP_WILLENTERBACKGROUND == 256 + 3
APP_DIDENTERBACKGROUND == 256 + 4
APP_WILLENTERFOREGROUND == 256 + 5
APP_DIDENTERFOREGROUND == 256 + 6
WINDOWEVENT == 512
SYSWMEVENT == 512 + 1
KEYDOWN == 768
KEYUP == 768 + 1
TEXTEDITING == 768 + 2
TEXTINPUT == 768 + 3
KEYMAPCHANGED == 768 + 4
MOUSEMOTION == 1024
MOUSEBUTTONDOWN == 1024 + 1
MOUSEBUTTONUP == 1024 + 2
MOUSEWHEEL == 1024 + 3
JOYAXISMOTION == 1536
JOYBALLMOTION == 1536 + 1
JOYHATMOTION == 1536 + 2
JOYBUTTONDOWN == 1536 + 3
JOYBUTTONUP == 1536 + 4
JOYDEVICEADDED == 1536 + 5
JOYDEVICEREMOVED == 1536 + 6
CONTROLLERAXISMOTION == 1616
CONTROLLERBUTTONDOWN == 1616 + 1
CONTROLLERBUTTONUP == 1616 + 2
CONTROLLERDEVICEADDED == 1616 + 3
CONTROLLERDEVICEREMOVED == 1616 + 4
CONTROLLERDEVICEREMAPPED == 1616 + 5
FINGERDOWN == 1792
FINGERUP == 1792 + 1
FINGERMOTION == 1792 + 3
DOLLARGESTURE == 2048
DOLLARRECORD == 2048 + 1
MULTIGESTURE == 2048 + 2
CLIPBOARDUPDATE == 2304
DROPFILE == 4096
DROPTEXT == 4096 + 1
DROPBEGIN == 4096 + 2
DROPCOMPLETE == 4096 + 3
AUDIODEVICEADDED == 4352
AUDIODEVICEREMOVED == 4352 + 1
SENSORUPDATE == 4608
RENDER_TARGETS_RESET == 8192
RENDER_DEVICE_RESET == 8192 + 1
USEREVENT == 32768
LASTEVENT == 65535

----------------------------------------------------------------------------
(* The event decoder *)

\* A native event record (CEvent): the leading tag, the timestamp, and the
\* bytes after them, seen as a pointer-sized word, a 32-bit word and the rest
\* (the layout of tDropEvent; the other shapes overlay the same bytes).
NoBytes == [File |-> NullPtr, WindowID |-> 0, rest |-> 0]

\* A shape that is a view of the record itself: (*T)(unsafe.Pointer(cevent)).
CastTo(shape, cev) ==
    [shape |-> shape, Type |-> cev.Type, Timestamp |-> cev.Timestamp,
     view |-> cev.bytes, File |-> <<>>, WindowID |-> 0]

goEvent(cev) ==
    LET t == cev.Type IN
    CASE t = WINDOWEVENT -> CastTo("WindowEvent", cev)
      [] t = SYSWMEVENT -> CastTo("SysWMEvent", cev)
      [] t \in {KEYDOWN, KEYUP} -> CastTo("KeyboardEvent", cev)
      [] t = TEXTEDITING -> CastTo("TextEditingEvent", cev)
      [] t = TEXTINPUT -> CastTo("TextInputEvent", cev)
      [] t = MOUSEMOTION -> CastTo("MouseMotionEvent", cev)
      [] t \in {MOUSEBUTTONDOWN, MOUSEBUTTONUP} -> CastTo("MouseButtonEvent", cev)
      [] t = MOUSEWHEEL -> CastTo("MouseWheelEvent", cev)
      [] t = JOYAXISMOTION -> CastTo("JoyAxisEvent", cev)
      [] t = JOYBALLMOTION -> CastTo("JoyBallEvent", cev)
      [] t = JOYHATMOTION -> CastTo("JoyHatEvent", cev)
      [] t \in {JOYBUTTONDOWN, JOYBUTTONUP} -> CastTo("JoyButtonEvent", cev)
      [] t = JOYDEVICEADDED -> CastTo("JoyDeviceAddedEvent", cev)
      [] t = JOYDEVICEREMOVED -> CastTo("JoyDeviceRemovedEvent", cev)
      [] t = CONTROLLERAXISMOTION -> CastTo("ControllerAxisEvent", cev)
      [] t \in {CONTROLLERBUTTONDOWN, CONTROLLERBUTTONUP} ->
            CastTo("ControllerButtonEvent", cev)
      [] t \in {CONTROLLERDEVICEADDED, CONTROLLERDEVICEREMOVED,
                CONTROLLERDEVICEREMAPPED} -> CastTo("ControllerDeviceEvent", cev)
      [] t \in {AUDIODEVICEADDED, AUDIODEVICEREMOVED} -> CastTo("AudioDeviceEvent", cev)
      [] t \in {FINGERMOTION, FINGERDOWN, FINGERUP} -> CastTo("TouchFingerEvent", cev)
      [] t = MULTIGESTURE -> CastTo("MultiGestureEvent", cev)
      [] t \in {DOLLARGESTURE, DOLLARRECORD} -> CastTo("DollarGestureEvent", cev)
      [] t \in {DROPFILE, DROPTEXT, DROPBEGIN, DROPCOMPLETE} ->
            [shape |-> "DropEvent", Type |-> cev.Type, Timestamp |-> cev.Timestamp,
             view |-> NoBytes, File |-> sdlToGoString(cev.bytes.File),
             WindowID |-> cev.bytes.WindowID]
      [] t = SENSORUPDATE -> CastTo("SensorEvent", cev)
      [] t \in {RENDER_TARGETS_RESET, RENDER_DEVICE_RESET} -> CastTo("RenderEvent", cev)
      [] t = QUIT -> CastTo("QuitEvent", cev)
      [] t = USEREVENT -> CastTo("UserEvent", cev)
      [] t = CLIPBOARDUPDATE -> CastTo("ClipboardEvent", cev)
      [] OTHER -> CastTo("CommonEvent", cev)

----------------------------------------------------------------------------
(* Operations and handler invocations, as records *)

NoEvent == [Type |-> 0, Timestamp |-> 0, bytes |-> NoBytes]
NoGoEvent == CastTo("none", NoEvent)

\* An operation of the binding and what it returned.
Op(name) ==
    [name |-> name, handle |-> 0, filter |-> "", userdata |-> "",
     hint |-> <<>>, old |-> <<>>, value |-> <<>>, changed |-> FALSE,
     event |-> NoEvent,
     filtered |-> FALSE, err |-> "nil",
     entered |-> FALSE,    \* whether Main had been called before the operation
     ret |-> <<>>,         \* further results of the operation
     native |-> <<>>]      \* the native functions the operation called, in order

\* One invocation of a host handler by a trampoline.
Call(kind) ==
    [kind |-> kind, handle |-> 0, fn |-> "", userdata |-> "",
     event |-> NoGoEvent, name |-> <<>>, old |-> <<>>, new |-> <<>>]

\* The events the native library delivers in Spec.
WatchEvents ==
    { [Type |-> t, Timestamp |-> 1,
       bytes |-> [File |-> NullPtr, WindowID |-> 0, rest |-> 42]] :
      t \in {USEREVENT, QUIT} }

----------------------------------------------------------------------------
(* Event watches *)

Put(f, k, v) == [x \in DOMAIN f \cup {k} |-> IF x = k THEN v ELSE f[x]]
Delete(f, k) == [x \in DOMAIN f \ {k} |-> f[x]]

RECURSIVE RemoveFirst(_, _)
RemoveFirst(seq, x) ==
    IF seq = <<>> THEN <<>>
    ELSE IF Head(seq) = x THEN Tail(seq)
    ELSE <<Head(seq)>> \o RemoveFirst(Tail(seq), x)

\* The loop of newEventFilterCallbackContext: the next handle, from `last`
\* on, that is not in the registry (lastEventWatchHandle++ wraps around).
RECURSIVE NextFreeHandle(_, _)
NextFreeHandle(watches, last) ==
    IF last \notin DOMAIN watches
    THEN last
    ELSE NextFreeHandle(watches, (last + 1) % NumHandles)

\* newEventFilterCallbackContext: the context, the registry and the counter
\* after the call.
newEventFilterCallbackContext(watches, last, filter, userdata) ==
    LET h == NextFreeHandle(watches, last)
        e == [filter |-> filter, handle |-> h, userdata |-> userdata]
    IN  [context |-> e,
         watches |-> Put(watches, h, e),
         last |-> (h + 1) % NumHandles]

\* addEventWatch.Call(eventFilterCallbackPtr, handle): SDL_AddEventWatch
\* appends the (callback, userdata) pair to the native watcher list.
addEventWatchCall(watchers, handle) == Append(watchers, handle)

\* A DelEventWatch that leaves the native watcher list as it is.
delEventWatchCallOmitted(watchers, handle) == watchers

\* delEventWatch.Call(eventFilterCallbackPtr, handle): SDL_DelEventWatch
\* removes the (callback, userdata) pair from the native watcher list.
delEventWatchCall(watchers, handle) == RemoveFirst(watchers, handle)

\* wrapEventFilterCallback: decode the record and call the filter.
wrapEventFilterCallback(filter, e, userdata) ==
    [Call("FilterEvent") EXCEPT !.fn = filter, !.event = goEvent(e),
                                !.userdata = userdata]

\* theEventFilterCallback: the trampoline the native library calls with the
\* userdata word of the registration.  A handle that is not in the registry
\* yields a nil context, and context.filter panics.
theEventFilterCallback(watches, userdata, e) ==
    IF userdata \in DOMAIN watches
    THEN [wrapEventFilterCallback(watches[userdata].filter, e,
                                  watches[userdata].userdata)
          EXCEPT !.handle = userdata]
    ELSE [Call("panic") EXCEPT !.handle = userdata]

AddEventWatch(filter, userdata) ==
    /\ Cardinality(DOMAIN eventWatches) < MaxWatches
    /\ LET r == newEventFilterCallbackContext(eventWatches, lastEventWatchHandle,
                                              filter, userdata)
       IN  /\ eventWatches' = r.watches
           /\ lastEventWatchHandle' = r.last
           /\ nativeWatchers' = addEventWatchCall(nativeWatchers, r.context.handle)
           /\ op' = [Op("AddEventWatch") EXCEPT !.handle = r.context.handle,
                        !.filter = filter, !.userdata = userdata,
                        !.native = <<"SDL_AddEventWatch">>]
           /\ watchLive' = Put(watchLive, r.context.handle,
                               [filter |-> filter, userdata |-> userdata])
           /\ watchDeleted' = watchDeleted \ {r.context.handle}
    /\ calls' = <<>>
    /\ UNCHANGED <<funcLive, hintVars, marshalVars, decodeVars, moreVars>>

\* An AddEventWatchFunc that registers as AddEventWatch does.
AddEventWatchFuncRegisters(filterFunc, userdata) ==
    /\ Cardinality(DOMAIN eventWatches) < MaxWatches
    /\ LET r == newEventFilterCallbackContext(eventWatches, lastEventWatchHandle,
                                              filterFunc, userdata)
       IN  /\ eventWatches' = r.watches
           /\ lastEventWatchHandle' = r.last
           /\ nativeWatchers' = addEventWatchCall(nativeWatchers, r.context.handle)
           /\ op' = [Op("AddEventWatchFunc") EXCEPT !.handle = r.context.handle,
                        !.filter = filterFunc, !.userdata = userdata,
                        !.native = <<"SDL_AddEventWatch">>]
           /\ funcLive' = funcLive \cup
                   {[fn |-> filterFunc, userdata |-> userdata,
                     handle |-> r.context.handle]}
    /\ calls' = <<>>
    /\ UNCHANGED <<watchLive, watchDeleted, hintVars, marshalVars, decodeVars, moreVars>>

\* The body is "return 0": nothing is registered.
AddEventWatchFunc(filterFunc, userdata) ==
    /\ op' = [Op("AddEventWatchFunc") EXCEPT !.handle = 0,
                 !.filter = filterFunc, !.userdata = userdata]
    /\ calls' = <<>>
    /\ funcLive' = funcLive \cup
                     {[fn |-> filterFunc, userdata |-> userdata, handle |-> 0]}
    /\ UNCHANGED <<eventWatches, lastEventWatchHandle, nativeWatchers,
                   watchLive, watchDeleted, hintVars, marshalVars, decodeVars, moreVars>>

DelEventWatch(handle) ==
    /\ IF handle \notin DOMAIN eventWatches
       THEN UNCHANGED <<eventWatches, nativeWatchers>>
       ELSE LET context == eventWatches[handle]
            IN  /\ eventWatches' = Delete(eventWatches, context.handle)
                /\ nativeWatchers' = delEventWatchCall(nativeWatchers, context.handle)
    /\ op' = [Op("DelEventWatch") EXCEPT !.handle = handle,
                 !.native = IF handle \in DOMAIN eventWatches
                            THEN <<"SDL_DelEventWatch">> ELSE <<>>]
    /\ calls' = <<>>
    /\ watchLive' = Delete(watchLive, handle)
    /\ watchDeleted' = IF handle \in DOMAIN watchLive
                       THEN watchDeleted \cup {handle}
                       ELSE watchDeleted
    /\ funcLive' = {r \in funcLive : r.handle # handle}
    /\ UNCHANGED <<lastEventWatchHandle, hintVars, marshalVars, decodeVars, moreVars>>

\* The body is a bare "return": (false, nil), and no native call.
PushEvent(e) ==
    /\ op' = [Op("PushEvent") EXCEPT !.event = e, !.filtered = FALSE, !.err = "nil"]
    /\ calls' = <<>>
    /\ UNCHANGED <<watchVars, hintVars, marshalVars, decodeVars, moreVars>>

\* pumpEvents.Call(): the native library gathers an event and, adding it to
\* its queue, calls every watcher of its list with the watcher's userdata.
PumpEvents(e) ==
    /\ op' = [Op("PumpEvents") EXCEPT !.event = e, !.native = <<"SDL_PumpEvents">>]
    /\ calls' = [i \in 1 .. Len(nativeWatchers) |->
                   theEventFilterCallback(eventWatches, nativeWatchers[i], e)]
    /\ UNCHANGED <<watchVars, hintVars, marshalVars, decodeVars, moreVars>>

----------------------------------------------------------------------------
(* Hint callbacks *)

\* Hint names and values are C identifiers and texts: no byte of them is 0.
HintNames == {<<1>>, <<2>>}
HintValues == {<<>>, <<1>>}
HintCallbacks == {"cb1", "cb2", "nil"}

\* theHintCallback: the trampoline the native library calls with the hint's
\* name, old value and new value; the handler is looked up by name.
theHintCallback(callbacks, name, oldValue, newValue) ==
    LET n == sdlToGoString(name) IN
    IF n \in DOMAIN callbacks /\ callbacks[n].callback # "nil"
    THEN << [Call("HintCallback") EXCEPT
                !.fn = callbacks[n].callback, !.userdata = callbacks[n].data,
                !.name = n, !.old = sdlToGoString(oldValue),
                !.new = sdlToGoString(newValue)] >>
    ELSE <<>>

\* An AddHintCallback that does not reach the native library.
addHintCallbackCallOmitted(hints, callbacks, name) ==
    [hints |-> hints, calls |-> <<>>]

\* addHintCallback.Call(name, hintCallbackPtr, 0): SDL_AddHintCallback puts
\* the callback on the hint's list (once: an equal entry is replaced) and
\* calls it with the hint's current value as the old and the new value.
addHintCallbackCall(hints, callbacks, name) ==
    LET cur == hints[sdlToGoString(name)].value IN
    [hints |-> [hints EXCEPT ![sdlToGoString(name)].watched = TRUE],
     calls |-> theHintCallback(callbacks, name, cur, cur)]

\* delHintCallback.Call(name, hintCallbackPtr, 0): SDL_DelHintCallback takes
\* the callback off the hint's list.
delHintCallbackCall(hints, name) ==
    [hints EXCEPT ![sdlToGoString(name)].watched = FALSE]

AddHintCallback(name, fn, data) ==
    LET n == CString(name)
        registered == Put(hintCallbacks, name, [callback |-> fn, data |-> data])
        r == addHintCallbackCall(nativeHints, registered, n)
    IN  /\ hintCallbacks' = registered
        /\ nativeHints' = r.hints
        /\ calls' = r.calls
        /\ op' = [Op("AddHintCallback") EXCEPT !.hint = name, !.filter = fn,
                     !.userdata = data,
                     !.value = sdlToGoString(nativeHints[sdlToGoString(n)].value),
                     !.native = <<"SDL_AddHintCallback">>]
        /\ hintLive' = Put(hintLive, name, [callback |-> fn, data |-> data])
        /\ hintDeleted' = {d \in hintDeleted : d.name # name}
        /\ UNCHANGED <<watchVars, marshalVars, decodeVars, moreVars>>

\* What DelHintCallback records of itself, whatever its body does.
DelHintCallbackHistory(name) ==
    /\ calls' = <<>>
    /\ op' = [Op("DelHintCallback") EXCEPT !.hint = name,
                 !.native = <<"SDL_DelHintCallback">>]
    /\ hintLive' = Delete(hintLive, name)
    /\ hintDeleted' =
         IF name \in DOMAIN hintLive
         THEN hintDeleted \cup {[name |-> name, callback |-> hintLive[name].callback,
                                 data |-> hintLive[name].data]}
         ELSE hintDeleted
    /\ UNCHANGED <<watchVars, marshalVars, decodeVars, moreVars>>

\* A DelHintCallback that deletes nothing.
DelHintCallbackStub(name) ==
    /\ UNCHANGED <<hintCallbacks, nativeHints>>
    /\ DelHintCallbackHistory(name)

DelHintCallback(name) ==
    LET n == CString(name) IN
    /\ hintCallbacks' = Delete(hintCallbacks, name)
    /\ nativeHints' = delHintCallbackCall(nativeHints, n)
    /\ DelHintCallbackHistory(name)

\* setHint.Call(name, value): SDL_SetHint; a value that differs from the
\* hint's value is a change: the hint's callbacks are called with the old and
\* the new value, then the value is stored.
SetHint(name, value) ==
    LET n == CString(name)
        v == CString(value)
        key == sdlToGoString(n)
        old == nativeHints[key].value
        changed == old.null \/ sdlToGoString(old) # sdlToGoString(v)
    IN  /\ calls' = IF changed /\ nativeHints[key].watched
                    THEN theHintCallback(hintCallbacks, n, old, v)
                    ELSE <<>>
        /\ nativeHints' = IF changed
                          THEN [nativeHints EXCEPT ![key].value = v]
                          ELSE nativeHints
        /\ op' = [Op("SetHint") EXCEPT !.hint = name, !.value = value,
                     !.old = sdlToGoString(old), !.changed = changed,
                     !.native = <<"SDL_SetHint">>]
        /\ UNCHANGED <<hintCallbacks, hintLive, hintDeleted, watchVars,
                       marshalVars, decodeVars, moreVars>>

----------------------------------------------------------------------------
(* Machine words *)

\* The bits of a 32-bit quantity (scaled); a 64-bit quantity has twice as many.
HalfBits == 3

Half == 2 ^ HalfBits
Full == Half * Half

MaxInt64 == (Full \div 2) - 1
MinInt64 == 0 - (Full \div 2)

Archs == {"386", "amd64"}

\* uintptr(x): the machine word of the architecture, x truncated to it
uintptr(arch, x) == IF arch = "386" THEN x % Half ELSE x % Full

\* uint32(x): the low 32 bits
uint32(x) == x % Half

\* x >> 32 (arithmetic for a signed x, logical for an unsigned one)
shr32(x) == x \div Half

\* int64(u) of a 64-bit pattern: its two's complement reading
Signed64(u) == IF u > MaxInt64 THEN u - Full ELSE u

\* int(u) of a 32-bit pattern
Signed32(u) == IF u >= Half \div 2 THEN u - Half ELSE u

\* int64(ret) of a uintptr: the 64-bit word read as signed, the 32-bit word
\* zero-extended
int64OfWord(arch, ret) == IF arch = "386" THEN ret ELSE Signed64(ret)

\* int(ret) of a uintptr: int has the width of the word
intOfWord(arch, ret) == IF arch = "386" THEN Signed32(ret) ELSE Signed64(ret)

\* The two words joined the wrong way round.
Join64Swapped(r1, r2) == (r1 * Half + r2) % Full

\* uint64(r2)<<32 + uint64(r1)
Join64(r1, r2) == (r2 * Half + r1) % Full

\* The two return words of a native call (EAX/EDX, RAX/RDX).  A 64-bit result
\* comes back in both words on 386 and in the first on amd64; a pointer comes
\* back in the first word; of a 32-bit result the calling convention defines
\* the low 32 bits of the first word only: `upper` is what the high half of
\* RAX holds.  Where the second word is no part of the result no wrapper
\* reads it, and it is left 0 here.
ReturnWords64(arch, pattern) ==
    IF arch = "386"
    THEN [r1 |-> pattern % Half, r2 |-> pattern \div Half]
    ELSE [r1 |-> pattern, r2 |-> 0]

ReturnWordsPtr(arch, pointer) == [r1 |-> pointer, r2 |-> 0]

ReturnWords32(arch, pattern, upper) ==
    IF arch = "386"
    THEN [r1 |-> pattern, r2 |-> 0]
    ELSE [r1 |-> upper * Half + pattern, r2 |-> 0]

\* What the half of a register that the convention leaves undefined may hold.
Garbage == {0, Half - 1}

----------------------------------------------------------------------------
(* Errors *)

ErrTexts == {<<1>>, <<2>>}

NilError == [kind |-> "nil", msg |-> <<>>]
ErrInvalidParameters == [kind |-> "ErrInvalidParameters", msg |-> <<>>]
NativeError(s) == [kind |-> "native", msg |-> s]

\* GetError: the native last-error text as an error, nil when it is empty.
GetError(text) ==
    LET s == sdlToGoString(CString(text)) IN
    IF s # <<>> THEN NativeError(s) ELSE NilError

\* errorFromInt: GetError() for a negative code.
errorFromInt(code, text) == IF code < 0 THEN GetError(text) ELSE NilError

----------------------------------------------------------------------------
(* Wrapper calls, as records *)

\* An argument of the native function: its width and its value.
Arg64(v) == [bits |-> 64, v |-> v]
ArgWord(v) == [bits |-> 0, v |-> v]

MCall(fn, arch) ==
    [fn |-> fn, arch |-> arch,
     called |-> FALSE,      \* whether the native function was called
     sig |-> <<>>,          \* the native function's arguments
     words |-> <<>>,        \* the words handed to the call
     failed |-> FALSE,      \* whether the native function failed
     native |-> 0,          \* the native result (a 64-bit pattern)
     r1 |-> 0, r2 |-> 0,    \* the return words
     value |-> 0,           \* the wrapper's result
     err |-> NilError,      \* the wrapper's error
     text |-> <<>>]         \* the native last-error text after the call

\* The outcome of a native call that reports failure by a sentinel.
Outcome(failed, result, msg) == [failed |-> failed, result |-> result, msg |-> msg]

\* The native call on the last-error text: a failure sets it.
TextAfter(o) == IF o.failed THEN o.msg ELSE lastError

Finished(fn, arch, sig, words, o, rw, ret) ==
    [MCall(fn, arch) EXCEPT
        !.called = TRUE, !.sig = sig, !.words = words, !.failed = o.failed,
        !.native = o.result % Full, !.r1 = rw.r1, !.r2 = rw.r2,
        !.value = ret.value, !.err = ret.err, !.text = TextAfter(o)]

NotCalled(fn, arch, value, err) ==
    [MCall(fn, arch) EXCEPT !.value = value, !.err = err]

OtherParts == <<watchVars, hintVars, opVars, decodeVars, moreVars>>


----------------------------------------------------------------------------
(* The per-architecture wrappers *)

RW_SEEK_SET == 0
RW_SEEK_CUR == 1
RW_SEEK_END == 2

Int64Samples == {MinInt64, 0 - 1, 0, Half + 2, MaxInt64}
Positions == {x \in Int64Samples : x >= 0}
Pointers == {1, Half - 1}
Whences == {RW_SEEK_SET, RW_SEEK_CUR, RW_SEEK_END}

\* The results of a native function that returns a position or -1, a pointer
\* or null, an int that is 0 or negative.
PositionOutcomes ==
    {Outcome(FALSE, x, <<>>) : x \in Positions}
        \cup {Outcome(TRUE, 0 - 1, m) : m \in ErrTexts}
PointerOutcomes ==
    {Outcome(FALSE, x, <<>>) : x \in Pointers}
        \cup {Outcome(TRUE, 0, m) : m \in ErrTexts}
IntOutcomes ==
    {Outcome(FALSE, 0, <<>>)} \cup {Outcome(TRUE, 0 - 1, m) : m \in ErrTexts}

Result(value, err) == [value |-> value, err |-> err]

\* ---- RWops.Seek
SeekWords(arch, rwops, offset, whence) ==
    IF arch = "386"
    THEN << uintptr(arch, rwops), uintptr(arch, uint32(offset)),
            uintptr(arch, uint32(shr32(offset))), uintptr(arch, whence) >>
    ELSE << uintptr(arch, rwops), uintptr(arch, offset), uintptr(arch, whence) >>

\* "if ret < 0" compares a uintptr: it is never true.
SeekReturn(arch, r1, r2, text) == Result(int64OfWord(arch, r1), NilError)

Seek(arch, rwops, offset, whence, o) ==
    /\ mcall' =
         IF rwops = 0
         THEN NotCalled("Seek", arch, 0 - 1, ErrInvalidParameters)
         ELSE LET rw == ReturnWords64(arch, o.result % Full) IN
              Finished("Seek", arch,
                       <<ArgWord(rwops), Arg64(offset), ArgWord(whence)>>,
                       SeekWords(arch, rwops, offset, whence), o, rw,
                       SeekReturn(arch, rw.r1, rw.r2, TextAfter(o)))
    /\ lastError' = IF rwops = 0 THEN lastError ELSE TextAfter(o)
    /\ UNCHANGED <<rwcell, rwwritten, OtherParts>>

\* ---- RWops.Size
SizeWords(arch, rwops) == << uintptr(arch, rwops) >>

SizeReturn(arch, r1, r2, text) ==
    LET n == IF arch = "386" THEN Signed64(Join64(r1, r2)) ELSE int64OfWord(arch, r1)
    IN  IF n < 0 THEN Result(n, GetError(text)) ELSE Result(n, NilError)

Size(arch, rwops, o) ==
    /\ LET rw == ReturnWords64(arch, o.result % Full) IN
       mcall' = Finished("Size", arch, <<ArgWord(rwops)>>, SizeWords(arch, rwops),
                         o, rw, SizeReturn(arch, rw.r1, rw.r2, TextAfter(o)))
    /\ lastError' = TextAfter(o)
    /\ UNCHANGED <<rwcell, rwwritten, OtherParts>>

\* ---- RWops.Tell: the stream's seek function with offset 0, RW_SEEK_CUR
TellWords(arch, rwops) ==
    << uintptr(arch, rwops), 0, uintptr(arch, RW_SEEK_CUR) >>

TellReturn(arch, r1, r2, text) ==
    LET ofs == int64OfWord(arch, r1)
    IN  IF ofs < 0 THEN Result(ofs, GetError(text)) ELSE Result(ofs, NilError)

Tell(arch, rwops, o) ==
    /\ mcall' =
         IF rwops = 0
         THEN NotCalled("Tell", arch, 0, ErrInvalidParameters)
         ELSE LET rw == ReturnWords64(arch, o.result % Full) IN
              Finished("Tell", arch,
                       <<ArgWord(rwops), Arg64(0), ArgWord(RW_SEEK_CUR)>>,
                       TellWords(arch, rwops), o, rw,
                       TellReturn(arch, rw.r1, rw.r2, TextAfter(o)))
    /\ lastError' = IF rwops = 0 THEN lastError ELSE TextAfter(o)
    /\ UNCHANGED <<rwcell, rwwritten, OtherParts>>

\* ---- GetTouchDevice
GetTouchDeviceWords(arch, index) == << uintptr(arch, index) >>

GetTouchDeviceReturn(arch, r1, r2, text) ==
    IF arch = "386"
    THEN Result(Signed64(Join64(r1, r2)), NilError)
    ELSE Result(Signed64(r1), NilError)

GetTouchDevice(arch, index, id) ==
    /\ LET o == Outcome(id = 0, id, lastError)
           rw == ReturnWords64(arch, id % Full)
       IN  mcall' = Finished("GetTouchDevice", arch, <<ArgWord(index)>>,
                             GetTouchDeviceWords(arch, index), o, rw,
                             GetTouchDeviceReturn(arch, rw.r1, rw.r2, lastError))
    /\ UNCHANGED <<lastError, rwcell, rwwritten, OtherParts>>

\* ---- GetTouchFinger
GetTouchFingerWords(arch, t, index) ==
    IF arch = "386"
    THEN << uintptr(arch, uint32(t)), uintptr(arch, uint32(shr32(t))),
            uintptr(arch, index) >>
    ELSE << uintptr(arch, t), uintptr(arch, index) >>

GetTouchFingerReturn(arch, r1, r2, text) == Result(r1, NilError)

GetTouchFinger(arch, t, index, finger) ==
    /\ LET o == Outcome(finger = 0, finger, lastError)
           rw == ReturnWordsPtr(arch, finger)
       IN  mcall' = Finished("GetTouchFinger", arch, <<Arg64(t), ArgWord(index)>>,
                             GetTouchFingerWords(arch, t, index), o, rw,
                             GetTouchFingerReturn(arch, rw.r1, rw.r2, lastError))
    /\ UNCHANGED <<lastError, rwcell, rwwritten, OtherParts>>

\* ---- Renderer.CopyEx
CopyExWords(arch, renderer, texture, src, dst, angleBits, center, flip) ==
    IF arch = "386"
    THEN << uintptr(arch, renderer), uintptr(arch, texture), uintptr(arch, src),
            uintptr(arch, dst), uintptr(arch, uint32(angleBits)),
            uintptr(arch, uint32(shr32(angleBits))), uintptr(arch, center),
            uintptr(arch, flip) >>
    ELSE << uintptr(arch, renderer), uintptr(arch, texture), uintptr(arch, src),
            uintptr(arch, dst), uintptr(arch, angleBits), uintptr(arch, center),
            uintptr(arch, flip) >>

CopyExReturn(arch, r1, r2, text) ==
    Result(0, errorFromInt(intOfWord(arch, r1), text))

CopyEx(arch, angleBits, flip, o, upper) ==
    /\ LET rw == ReturnWords32(arch, o.result % Half, upper) IN
       mcall' = Finished("CopyEx", arch,
                         <<ArgWord(1), ArgWord(1), ArgWord(0), ArgWord(1),
                           Arg64(angleBits), ArgWord(0), ArgWord(flip)>>,
                         CopyExWords(arch, 1, 1, 0, 1, angleBits, 0, flip),
                         o, rw, CopyExReturn(arch, rw.r1, rw.r2, TextAfter(o)))
    /\ lastError' = TextAfter(o)
    /\ UNCHANGED <<rwcell, rwwritten, OtherParts>>

\* ---- GLGetSwapInterval: int(ret), errorFromInt(int(ret)).  The native
\* function returns 0, 1, or -1 for adaptive vsync, which is no failure.
SwapOutcomes ==
    IntOutcomes \cup {Outcome(FALSE, 1, <<>>), Outcome(FALSE, 0 - 1, <<>>)}

GLGetSwapIntervalReturn(arch, r1, r2, text) ==
    Result(intOfWord(arch, r1), errorFromInt(intOfWord(arch, r1), text))

GLGetSwapInterval(arch, o, upper) ==
    /\ LET rw == ReturnWords32(arch, o.result % Half, upper) IN
       mcall' = Finished("GLGetSwapInterval", arch, <<>>, <<>>, o, rw,
                         GLGetSwapIntervalReturn(arch, rw.r1, rw.r2, TextAfter(o)))
    /\ lastError' = TextAfter(o)
    /\ UNCHANGED <<rwcell, rwwritten, OtherParts>>

\* ---- Surface.Convert, Surface.ConvertFormat, Surface.FillRect
SurfaceWords(arch, surface, a, b) ==
    << uintptr(arch, surface), uintptr(arch, a), uintptr(arch, b) >>

\* "if ret != 0 { return nil, GetError() }"
SurfaceConvertReturn(arch, r1, r2, text) ==
    IF r1 # 0 THEN Result(0, GetError(text)) ELSE Result(r1, NilError)

SurfaceConvertFormatReturn(arch, r1, r2, text) ==
    IF r1 = 0 THEN Result(0, GetError(text)) ELSE Result(r1, NilError)

\* "if ret == 0 { return GetError() }"
SurfaceFillRectReturn(arch, r1, r2, text) ==
    IF r1 = 0 THEN Result(0, GetError(text)) ELSE Result(0, NilError)

SurfaceConvert(arch, fmt, flags, o) ==
    /\ LET rw == ReturnWordsPtr(arch, o.result) IN
       mcall' = Finished("Surface.Convert", arch,
                         <<ArgWord(1), ArgWord(fmt), ArgWord(flags)>>,
                         SurfaceWords(arch, 1, fmt, flags), o, rw,
                         SurfaceConvertReturn(arch, rw.r1, rw.r2, TextAfter(o)))
    /\ lastError' = TextAfter(o)
    /\ UNCHANGED <<rwcell, rwwritten, OtherParts>>

SurfaceConvertFormat(arch, pixelFormat, flags, o) ==
    /\ LET rw == ReturnWordsPtr(arch, o.result) IN
       mcall' = Finished("Surface.ConvertFormat", arch,
                         <<ArgWord(1), ArgWord(pixelFormat), ArgWord(flags)>>,
                         SurfaceWords(arch, 1, pixelFormat, flags), o, rw,
                         SurfaceConvertFormatReturn(arch, rw.r1, rw.r2, TextAfter(o)))
    /\ lastError' = TextAfter(o)
    /\ UNCHANGED <<rwcell, rwwritten, OtherParts>>

SurfaceFillRect(arch, rect, color, o, upper) ==
    /\ LET rw == ReturnWords32(arch, o.result % Half, upper) IN
       mcall' = Finished("Surface.FillRect", arch,
                         <<ArgWord(1), ArgWord(rect), ArgWord(color)>>,
                         SurfaceWords(arch, 1, rect, color), o, rw,
                         SurfaceFillRectReturn(arch, rw.r1, rw.r2, TextAfter(o)))
    /\ lastError' = TextAfter(o)
    /\ UNCHANGED <<rwcell, rwwritten, OtherParts>>

----------------------------------------------------------------------------
(* 64-bit values written to and read from a stream *)

\* The 64-bit argument the native function finds at position i of the words
\* of the call: two stack slots, the low one first, on 386; one word on amd64.
NativeArg64(arch, words, i) ==
    IF arch = "386" THEN words[i + 1] * Half + words[i] ELSE words[i]

\* The stream holds the last 64-bit value written, as its two halves in the
\* order of the stream: SDL_WriteLE64 stores the low half first, SDL_WriteBE64
\* the high half first, and SDL_ReadLE64 / SDL_ReadBE64 read them accordingly.
StoreLE(v) == << v % Half, v \div Half >>
StoreBE(v) == << v \div Half, v % Half >>
LoadLE(cell) == cell[2] * Half + cell[1]
LoadBE(cell) == cell[1] * Half + cell[2]

U64Samples == {x % Full : x \in Int64Samples}

NothingWritten == [value |-> 0, order |-> "none", arch |-> "none"]

Write64Words(arch, rwops, value) ==
    IF arch = "386"
    THEN << uintptr(arch, rwops), uintptr(arch, uint32(value)),
            uintptr(arch, uint32(shr32(value))) >>
    ELSE << uintptr(arch, rwops), uintptr(arch, value) >>

Write64(fn, order, arch, rwops, value) ==
    /\ IF rwops = 0
       THEN /\ mcall' = NotCalled(fn, arch, 0, NilError)
            /\ UNCHANGED <<rwcell, rwwritten>>
       ELSE LET words == Write64Words(arch, rwops, value)
                v == NativeArg64(arch, words, 2)
                rw == ReturnWordsPtr(arch, 1)
            IN  /\ rwcell' = IF order = "LE" THEN StoreLE(v) ELSE StoreBE(v)
                /\ rwwritten' = [value |-> value, order |-> order, arch |-> arch]
                /\ mcall' = Finished(fn, arch, <<ArgWord(rwops), Arg64(value)>>,
                                     words, Outcome(FALSE, 1, <<>>), rw,
                                     Result(rw.r1, NilError))
    /\ UNCHANGED <<lastError, OtherParts>>

WriteLE64(arch, rwops, value) == Write64("WriteLE64", "LE", arch, rwops, value)
WriteBE64(arch, rwops, value) == Write64("WriteBE64", "BE", arch, rwops, value)

Read64Return(arch, r1, r2, text) ==
    IF arch = "386" THEN Result(Join64(r1, r2), NilError) ELSE Result(r1, NilError)

Read64(fn, order, arch, rwops) ==
    /\ IF rwops = 0
       THEN mcall' = NotCalled(fn, arch, 0, NilError)
       ELSE LET v == IF order = "LE" THEN LoadLE(rwcell) ELSE LoadBE(rwcell)
                rw == ReturnWords64(arch, v)
            IN  mcall' = Finished(fn, arch, <<ArgWord(rwops)>>,
                                  << uintptr(arch, rwops) >>,
                                  Outcome(FALSE, v, <<>>), rw,
                                  Read64Return(arch, rw.r1, rw.r2, lastError))
    /\ UNCHANGED <<lastError, rwcell, rwwritten, OtherParts>>

ReadLE64(arch, rwops) == Read64("ReadLE64", "LE", arch, rwops)
ReadBE64(arch, rwops) == Read64("ReadBE64", "BE", arch, rwops)

----------------------------------------------------------------------------
(* Decoding event records *)

\* The tags of the binding's table, the tag next after FINGERUP, and tags
\* between the groups.
DecodeTags ==
    {FIRSTEVENT, QUIT, APP_TERMINATING, APP_LOWMEMORY, APP_WILLENTERBACKGROUND,
     APP_DIDENTERBACKGROUND, APP_WILLENTERFOREGROUND, APP_DIDENTERFOREGROUND,
     WINDOWEVENT, SYSWMEVENT, KEYDOWN, KEYUP, TEXTEDITING, TEXTINPUT,
     KEYMAPCHANGED, MOUSEMOTION, MOUSEBUTTONDOWN, MOUSEBUTTONUP, MOUSEWHEEL,
     JOYAXISMOTION, JOYBALLMOTION, JOYHATMOTION, JOYBUTTONDOWN, JOYBUTTONUP,
     JOYDEVICEADDED, JOYDEVICEREMOVED, CONTROLLERAXISMOTION,
     CONTROLLERBUTTONDOWN, CONTROLLERBUTTONUP, CONTROLLERDEVICEADDED,
     CONTROLLERDEVICEREMOVED, CONTROLLERDEVICEREMAPPED, FINGERDOWN, FINGERUP,
     FINGERUP + 1, FINGERMOTION, DOLLARGESTURE, DOLLARRECORD, MULTIGESTURE,
     CLIPBOARDUPDATE, DROPFILE, DROPTEXT, DROPBEGIN, DROPCOMPLETE,
     AUDIODEVICEADDED, AUDIODEVICEREMOVED, SENSORUPDATE, RENDER_TARGETS_RESET,
     RENDER_DEVICE_RESET, USEREVENT, USEREVENT + 1, LASTEVENT}

DecodeFiles == {NullPtr, CString(<<>>), CString(<<1>>), CString(<<1, 2>>)}

DecodeRecords ==
    { [Type |-> t, Timestamp |-> ts,
       bytes |-> [File |-> f, WindowID |-> w, rest |-> 0]] :
      t \in DecodeTags, ts \in {0, 1}, f \in DecodeFiles, w \in {0, 1} }

\* goEvent on a record the native library filled in.
Decode(cev) ==
    /\ cevent' = cev
    /\ gevent' = goEvent(cev)
    /\ UNCHANGED <<watchVars, hintVars, opVars, marshalVars, moreVars>>

----------------------------------------------------------------------------
(* Main and Do, the log output function, the event filter, Quit *)

Closures == {"m1", "g1"}
LogFuncs == {"log1", "log2"}

\* A callInMain that runs the closure.
callInMainRuns(fn, f) == [panic |-> FALSE, ran |-> <<f>>]

\* callInMain(f): the function the variable holds.  The only value the
\* variable is ever given is the function that panics.
callInMainCall(fn, f) == [panic |-> TRUE, ran |-> <<>>]

\* The body is "// TODO": m is not run and callInMain is not set.
Main(m) ==
    /\ op' = [Op("Main") EXCEPT !.filter = m, !.entered = mainCalled]
    /\ calls' = <<>>
    /\ mainCalled' = TRUE
    /\ UNCHANGED <<callInMain, eventFilterCache, logOutput, watchVars, hintVars,
                   marshalVars, decodeVars, extraVars>>

Do(f) ==
    /\ LET r == callInMainCall(callInMain, f) IN
       /\ op' = [Op("Do") EXCEPT !.filter = f, !.entered = mainCalled,
                    !.err = IF r.panic THEN "panic" ELSE "nil"]
       /\ calls' = [i \in 1 .. Len(r.ran) |-> [Call("closure") EXCEPT !.fn = r.ran[i]]]
    /\ UNCHANGED <<hostVars, watchVars, hintVars, marshalVars, decodeVars, extraVars>>

\* The body is "// TODO": nothing is stored and nothing is called.
LogSetOutputFunction(f, data) ==
    /\ op' = [Op("LogSetOutputFunction") EXCEPT !.filter = f, !.userdata = data]
    /\ calls' = <<>>
    /\ logOutput' = [f |-> f, data |-> data]
    /\ UNCHANGED <<callInMain, eventFilterCache, mainCalled, watchVars, hintVars,
                   marshalVars, decodeVars, extraVars>>

\* "return nil, nil"
LogGetOutputFunction ==
    /\ op' = [Op("LogGetOutputFunction") EXCEPT !.ret = <<"nil", "nil">>]
    /\ calls' = <<>>
    /\ UNCHANGED <<hostVars, watchVars, hintVars, marshalVars, decodeVars, extraVars>>

\* A bare "return": (nil, 0).
LoadFileRW(src, freesrc) ==
    /\ op' = [Op("LoadFileRW") EXCEPT !.handle = src, !.changed = freesrc,
                 !.ret = << <<>>, 0 >>]
    /\ calls' = <<>>
    /\ UNCHANGED <<hostVars, watchVars, hintVars, marshalVars, decodeVars, extraVars>>

\* SetEventFilter: the native filter is set when the first filter comes and
\* cleared when the filter goes; the filter is cached.
SetEventFilter(filter) ==
    /\ op' = [Op("SetEventFilter") EXCEPT !.filter = filter,
                 !.native = IF eventFilterCache = "nil" /\ filter = "nil" THEN <<>>
                            ELSE IF (eventFilterCache = "nil") # (filter = "nil")
                                 THEN <<"SDL_SetEventFilter">>
                                 ELSE <<>>]
    /\ calls' = <<>>
    /\ nativeFilter' = IF (eventFilterCache = "nil") # (filter = "nil")
                       THEN filter # "nil"
                       ELSE nativeFilter
    /\ eventFilterCache' = filter
    /\ UNCHANGED <<callInMain, mainCalled, logOutput, watchVars, hintVars,
                   marshalVars, decodeVars, raceVars, streamVars, memVars,
                   spc, fcall, allocVars, pureVars>>

\* FilterEvents: a context is made, and stays in the registry; the native
\* library runs the trampoline over its queue, which holds no event here.
FilterEvents(filter, userdata) ==
    /\ Cardinality(DOMAIN eventWatches) < MaxWatches
    /\ LET r == newEventFilterCallbackContext(eventWatches, lastEventWatchHandle,
                                              filter, userdata)
       IN  /\ eventWatches' = r.watches
           /\ lastEventWatchHandle' = r.last
           /\ op' = [Op("FilterEvents") EXCEPT !.filter = filter,
                        !.userdata = userdata, !.native = <<"SDL_FilterEvents">>]
    /\ calls' = <<>>
    /\ UNCHANGED <<nativeWatchers, watchLive, watchDeleted, funcLive, hintVars,
                   marshalVars, decodeVars, moreVars>>

\* Quit: quit.Call(); the native library drops its watchers and its hints.
\* The host registries are left as they are.
Quit ==
    /\ op' = [Op("Quit") EXCEPT !.native = <<"SDL_Quit">>]
    /\ calls' = <<>>
    /\ nativeWatchers' = <<>>
    /\ nativeHints' = [n \in HintNames |-> [value |-> NullPtr, watched |-> FALSE]]
    /\ UNCHANGED <<eventWatches, lastEventWatchHandle, watchLive, watchDeleted,
                   funcLive, hintCallbacks, hintLive, hintDeleted, marshalVars,
                   decodeVars, moreVars>>

----------------------------------------------------------------------------
(* DelEventWatch against the trampoline: two threads, statement by statement *)

NoContext == [filter |-> "nil", handle |-> 0, userdata |-> "nil"]
DelIdle == [pc |-> "idle", handle |-> 0]
\* `at` is where DelEventWatch stood when the trampoline read the registry.
TrampolineIdle == [pc |-> "idle", handle |-> 0, context |-> NoContext, at |-> "idle"]

\* Neither thread has been stopped by the runtime.
Alive == tpc.pc # "fatal"

\* context, ok := eventWatches[handle]; if !ok { return }
DelLookup(handle) ==
    /\ Alive /\ dpc.pc = "idle"
    /\ dpc' = IF handle \in DOMAIN eventWatches
              THEN [pc |-> "found", handle |-> eventWatches[handle].handle]
              ELSE DelIdle
    /\ op' = [Op("DelEventWatch") EXCEPT !.handle = handle]
    /\ calls' = <<>>
    /\ watchLive' = Delete(watchLive, handle)
    /\ watchDeleted' = IF handle \in DOMAIN watchLive
                       THEN watchDeleted \cup {handle}
                       ELSE watchDeleted
    /\ UNCHANGED <<eventWatches, lastEventWatchHandle, nativeWatchers, funcLive,
                   tpc, hintVars, marshalVars, decodeVars, hostVars, streamVars, memVars, tailVars>>

\* A delete that waits for the trampoline to be out of the registry.
DelDeleteBeginLocked ==
    /\ Alive /\ dpc.pc = "found" /\ tpc.pc = "idle"
    /\ dpc' = [dpc EXCEPT !.pc = "deleting"]
    /\ UNCHANGED <<watchVars, opVars, tpc, hintVars, marshalVars, decodeVars, hostVars, streamVars, memVars, tailVars>>

\* delete(eventWatches, context.handle): the write of the map begins ...
DelDeleteBegin ==
    /\ Alive /\ dpc.pc = "found"
    /\ dpc' = [dpc EXCEPT !.pc = "deleting"]
    /\ UNCHANGED <<watchVars, opVars, tpc, hintVars, marshalVars, decodeVars, hostVars, streamVars, memVars, tailVars>>

\* ... and ends.
DelDeleteEnd ==
    /\ Alive /\ dpc.pc = "deleting"
    /\ eventWatches' = Delete(eventWatches, dpc.handle)
    /\ dpc' = [dpc EXCEPT !.pc = "deleted"]
    /\ UNCHANGED <<lastEventWatchHandle, nativeWatchers, watchLive, watchDeleted,
                   funcLive, opVars, tpc, hintVars, marshalVars, decodeVars, hostVars, streamVars, memVars, tailVars>>

\* delEventWatch.Call(eventFilterCallbackPtr, handle): SDL_DelEventWatch takes
\* the lock of the watcher list, which the native library holds while it
\* calls a watcher.
DelNative ==
    /\ Alive /\ dpc.pc = "deleted" /\ tpc.pc = "idle"
    /\ nativeWatchers' = delEventWatchCall(nativeWatchers, dpc.handle)
    /\ dpc' = DelIdle
    /\ op' = [op EXCEPT !.native = <<"SDL_DelEventWatch">>]
    /\ UNCHANGED <<eventWatches, lastEventWatchHandle, watchLive, watchDeleted,
                   funcLive, calls, tpc, hintVars, marshalVars, decodeVars, hostVars, streamVars, memVars, tailVars>>

\* The native library, on its thread, calls the trampoline for a watcher of
\* its list with the watcher's userdata.
TrampolineEnter(i) ==
    /\ Alive /\ tpc.pc = "idle"
    /\ i \in 1 .. Len(nativeWatchers)
    /\ tpc' = [TrampolineIdle EXCEPT !.pc = "entered", !.handle = nativeWatchers[i]]
    /\ UNCHANGED <<watchVars, opVars, dpc, hintVars, marshalVars, decodeVars, hostVars, streamVars, memVars, tailVars>>

\* What a read of the map can give.  While a write of the map is under way
\* the read is a data race: it sees the map before or after the write, or
\* the runtime stops the program ("concurrent map read and map write").
LookupOutcomes(watches, handle, writing, written) ==
    LET before == IF handle \in DOMAIN watches THEN watches[handle] ELSE NoContext
        after == IF handle \in DOMAIN Delete(watches, written)
                 THEN watches[handle] ELSE NoContext
    IN  IF writing
        THEN {[pc |-> "looked", context |-> before],
              [pc |-> "looked", context |-> after],
              [pc |-> "fatal", context |-> NoContext]}
        ELSE {[pc |-> "looked", context |-> before]}

\* context := eventWatches[EventWatchHandle(userdata)]
TrampolineLookup ==
    /\ Alive /\ tpc.pc = "entered"
    /\ \E o \in LookupOutcomes(eventWatches, tpc.handle, dpc.pc = "deleting",
                               dpc.handle) :
          tpc' = [tpc EXCEPT !.pc = o.pc, !.context = o.context, !.at = dpc.pc]
    /\ UNCHANGED <<watchVars, opVars, dpc, hintVars, marshalVars, decodeVars, hostVars, streamVars, memVars, tailVars>>

\* return wrapEventFilterCallback(context.filter, event, context.userdata):
\* a nil context panics at context.filter.
TrampolineCall(e) ==
    /\ Alive /\ tpc.pc = "looked"
    /\ calls' = IF tpc.context = NoContext
                THEN << [Call("panic") EXCEPT !.handle = tpc.handle] >>
                ELSE << [wrapEventFilterCallback(tpc.context.filter, e,
                                                 tpc.context.userdata)
                         EXCEPT !.handle = tpc.handle] >>
    /\ tpc' = TrampolineIdle
    /\ UNCHANGED <<watchVars, op, dpc, hintVars, marshalVars, decodeVars, hostVars, streamVars, memVars, tailVars>>

----------------------------------------------------------------------------
(* The wrappers seen from the native side: which native functions a call of
   a wrapper reaches, in which order, and how it ends *)

\* A Go slice: whether it is nil, and its length.
MaxLen == 2
Slice(isnil, len) == [isnil |-> isnil, len |-> len]
NilSlice == Slice(TRUE, 0)
Slices == {NilSlice} \cup {Slice(FALSE, n) : n \in 0 .. MaxLen}
\* The wrapper takes no slice.
NoSlice == Slice(FALSE, 0 - 1)

\* A call of a wrapper: its receiver or handle (0 is nil), its slice, the
\* native calls made so far, the place in the trace of the last-error query
\* whose result is the wrapper's error (0: none), the results, the Go panic
\* that ended it, and the native last-error text after it.
SCall(fn, handle, slice) ==
    [fn |-> fn, handle |-> handle, slice |-> slice,
     trace |-> <<>>, returned |-> 0,
     value |-> 0, err |-> NilError, panic |-> "none", text |-> <<>>,
     before |-> <<>>]      \* the last-error text when the wrapper was called

Start(fn, handle, slice) ==
    [SCall(fn, handle, slice) EXCEPT !.text = lastError, !.before = lastError]

\* proc.Call(...) / syscall.Syscall(...): the native function is called; a
\* failure sets the last-error text.
NativeCall(c, name, o) ==
    [c EXCEPT !.trace = Append(@, [fn |-> name, failed |-> o.failed]),
              !.text = IF o.failed THEN o.msg ELSE @]

\* err = GetError(): one more native call, whose result becomes the error.
Query(c) ==
    [c EXCEPT !.trace = Append(@, [fn |-> "SDL_GetError", failed |-> FALSE]),
              !.returned = Len(c.trace) + 1,
              !.err = GetError(c.text)]

\* return value, err with an error that is not queried
Return(c, value, err) == [c EXCEPT !.value = value, !.err = err, !.returned = 0]

\* A run-time panic of the Go code ends the wrapper.
Panic(c, what) == [c EXCEPT !.panic = what]

\* The wrapper has returned (or panicked).
Done(c) ==
    /\ scall' = c
    /\ lastError' = c.text
    /\ UNCHANGED <<mcall, rwcell, rwwritten, watchVars, hintVars, opVars,
                   decodeVars, hostVars, raceVars, memVars, tailVars>>

\* What a native read or write of at most n objects returns: the number of
\* objects done, 0 with an error text on failure.
CountOutcomes(n) ==
    {Outcome(FALSE, k, <<>>) : k \in 0 .. n}
        \cup {Outcome(TRUE, 0, m) : m \in ErrTexts}

\* A native function without a result.
NoOutcome == Outcome(FALSE, 0, <<>>)

\* ---- Texture.Query, Texture.Lock
TextureQueryResult(c, o) ==
    LET c1 == NativeCall(c, "SDL_QueryTexture", o) IN
    IF o.result # 0 THEN [Query(c1) EXCEPT !.value = 0] ELSE Return(c1, 1, NilError)

TextureQuery(o) == Done(TextureQueryResult(Start("TextureQuery", 1, NoSlice), o))

TextureLock(ol, oq) ==
    LET c1 == NativeCall(Start("TextureLock", 1, NoSlice), "SDL_LockTexture", ol)
        c2 == TextureQueryResult(c1, oq)
    IN  Done(IF ol.result # 0 THEN [Query(c1) EXCEPT !.value = 0]
             ELSE IF c2.err # NilError THEN [Query(c2) EXCEPT !.value = 0]
             ELSE Return(c2, 1, NilError))

\* ---- RWFromMem
RWFromMem(mem, o) ==
    LET c == Start("RWFromMem", 1, mem)
        c1 == NativeCall(c, "SDL_RWFromMem", o)
    IN  Done(IF mem.len = 0 THEN Return(c, 0, ErrInvalidParameters)
             ELSE IF o.result = 0 THEN [Query(c1) EXCEPT !.value = 0]
             ELSE Return(c1, o.result, NilError))

\* ---- RWops.Close: the native call comes before the test of the receiver;
\* what SDL_RWclose does with a null stream is not defined, any outcome is
\* taken here.
RWopsClose(rwops, o) ==
    LET c1 == NativeCall(Start("Close", rwops, NoSlice), "SDL_RWclose", o) IN
    Done(IF rwops # 0 /\ o.result # 0 THEN Query(c1) ELSE Return(c1, 0, NilError))

\* ---- RWops.Free
RWopsFree(rwops) ==
    LET c == Start("Free", rwops, NoSlice) IN
    Done(IF rwops = 0 THEN Return(c, 0, ErrInvalidParameters)
         ELSE Return(NativeCall(c, "SDL_FreeRW", NoOutcome), 0, NilError))

\* ---- RWops.Read2, RWops.Read
RWopsRead2Result(fn, rwops, buf, size, maxnum, o) ==
    LET c == Start(fn, rwops, buf)
        c1 == NativeCall(c, "rwops.read", o)
    IN  IF rwops = 0 \/ buf.isnil THEN Return(c, 0, ErrInvalidParameters)
        ELSE IF buf.len = 0 THEN Panic(c, "index out of range")
        ELSE IF o.result = 0 THEN [Query(c1) EXCEPT !.value = 0]
        ELSE Return(c1, o.result, NilError)

RWopsRead2(rwops, buf, size, maxnum, o) ==
    Done(RWopsRead2Result("Read2", rwops, buf, size, maxnum, o))

RWopsRead(rwops, buf, o) ==
    Done(RWopsRead2Result("Read", rwops, buf, 1, buf.len, o))

\* ---- RWops.Write2, RWops.Write
RWopsWrite2Result(fn, rwops, buf, size, num, o) ==
    LET c == Start(fn, rwops, buf)
        c1 == NativeCall(c, "rwops.write", o)
    IN  IF rwops = 0 \/ buf.isnil THEN Return(c, 0, ErrInvalidParameters)
        ELSE IF buf.len = 0 THEN Panic(c, "index out of range")
        ELSE IF o.result < num THEN [Query(c1) EXCEPT !.value = o.result]
        ELSE Return(c1, o.result, NilError)

RWopsWrite2(rwops, buf, size, num, o) ==
    Done(RWopsWrite2Result("Write2", rwops, buf, size, num, o))

RWopsWrite(rwops, buf, o) ==
    Done(RWopsWrite2Result("Write", rwops, buf, 1, buf.len, o))

\* ---- RWops.Seek, RWops.Size, RWops.Tell on a receiver that may be nil
RWopsSeek(arch, rwops, offset, whence, o) ==
    LET c == Start("Seek", rwops, NoSlice)
        rw == ReturnWords64(arch, o.result % Full)
        ret == SeekReturn(arch, rw.r1, rw.r2, TextAfter(o))
    IN  Done(IF rwops = 0 THEN Return(c, 0 - 1, ErrInvalidParameters)
             ELSE Return(NativeCall(c, "rwops.seek", o), ret.value, ret.err))

\* Size reads the field rwops.size without a test of the receiver.
RWopsSize(arch, rwops, o) ==
    LET c == Start("Size", rwops, NoSlice)
        c1 == NativeCall(c, "rwops.size", o)
        rw == ReturnWords64(arch, o.result % Full)
        ret == SizeReturn(arch, rw.r1, rw.r2, TextAfter(o))
    IN  Done(IF rwops = 0 THEN Panic(c, "nil pointer dereference")
             ELSE IF ret.value < 0 THEN [Query(c1) EXCEPT !.value = ret.value]
             ELSE Return(c1, ret.value, NilError))

RWopsTell(arch, rwops, o) ==
    LET c == Start("Tell", rwops, NoSlice)
        c1 == NativeCall(c, "rwops.seek", o)
        rw == ReturnWords64(arch, o.result % Full)
        ret == TellReturn(arch, rw.r1, rw.r2, TextAfter(o))
    IN  Done(IF rwops = 0 THEN Return(c, 0, ErrInvalidParameters)
             ELSE IF ret.value < 0 THEN [Query(c1) EXCEPT !.value = ret.value]
             ELSE Return(c1, ret.value, NilError))

\* ---- errorFromInt(int(ret)) after a native call
errorFromIntResult(c, arch, o, upper) ==
    LET rw == ReturnWords32(arch, o.result % Half, upper) IN
    IF intOfWord(arch, rw.r1) < 0 THEN Query(c) ELSE Return(c, 0, NilError)

\* ---- AudioStream.Put
AudioStreamPut(arch, buf, o, upper) ==
    LET c == Start("AudioStreamPut", 1, buf)
        c1 == NativeCall(c, "SDL_AudioStreamPut", o)
    IN  Done(IF buf.len = 0 THEN Return(c, 0, NilError)
             ELSE errorFromIntResult(c1, arch, o, upper))

\* ---- Renderer.DrawLines
RendererDrawLines(arch, points, o, upper) ==
    LET c == Start("DrawLines", 1, points)
        c1 == NativeCall(c, "SDL_RenderDrawLines", o)
    IN  Done(IF points.isnil THEN Return(c, 0, NilError)
             ELSE IF points.len = 0 THEN Panic(c, "index out of range")
             ELSE errorFromIntResult(c1, arch, o, upper))

\* ---- DequeueAudio: the native function returns the number of bytes
DequeueAudio(data, o) ==
    LET c == Start("DequeueAudio", 1, data)
        c1 == NativeCall(c, "SDL_DequeueAudio", o)
    IN  Done(IF data.len = 0 THEN Panic(c, "index out of range")
             ELSE IF o.result # 0 THEN Query(c1)
             ELSE Return(c1, 0, NilError))

----------------------------------------------------------------------------
(* A memory stream, cell by cell: the fixed-width writes and reads *)

\* The fixed-width primitives, in the order in which the caller uses them.
Kinds == <<"U8", "BE16", "LE16", "BE32", "LE32", "BE64", "LE64">>
Range(s) == {s[i] : i \in DOMAIN s}
KindIndex(k) == CHOOSE i \in DOMAIN Kinds : Kinds[i] = k
Wide == {"BE64", "LE64"}

\* A cell of the stream stands for a byte and holds one binary digit: a uint8
\* is one cell, a uint16 two, a uint32 HalfBits cells, a uint64 twice as many.
Width(k) ==
    CASE k = "U8" -> 1
      [] k \in {"BE16", "LE16"} -> 2
      [] k \in {"BE32", "LE32"} -> HalfBits
      [] k \in Wide -> 2 * HalfBits

BigEndian(k) == k \in {"BE16", "BE32", "BE64"}

Digit(v, i) == (v \div (2 ^ i)) % 2

\* The value of cells that hold the lowest digit first.
RECURSIVE CellsValue(_)
CellsValue(cells) ==
    IF cells = <<>> THEN 0 ELSE Head(cells) + 2 * CellsValue(Tail(cells))

Reverse(s) == [i \in DOMAIN s |-> s[Len(s) + 1 - i]]

\* The cells SDL_WriteBE16 ... SDL_WriteLE64 store for a value: the highest
\* digit first for the big-endian ones, the lowest first otherwise.
StoredCells(k, v) ==
    [j \in 1 .. Width(k) |->
        IF BigEndian(k) THEN Digit(v, Width(k) - j) ELSE Digit(v, j - 1)]

\* The native write on a memory stream: one object of Width(k) cells, or
\* nothing when it does not fit; the result is the number of objects written.
nativeWriteFixed(mem, here, k, v) ==
    IF here + Width(k) > Len(mem)
    THEN [mem |-> mem, here |-> here, ret |-> 0]
    ELSE [mem |-> [j \in DOMAIN mem |->
                      IF j > here /\ j <= here + Width(k)
                      THEN StoredCells(k, v)[j - here] ELSE mem[j]],
          here |-> here + Width(k), ret |-> 1]

\* The native read: the value of the next Width(k) cells, 0 when there are
\* not as many.
nativeReadFixed(mem, here, k) ==
    IF here + Width(k) > Len(mem)
    THEN [value |-> 0, here |-> here]
    ELSE LET cells == SubSeq(mem, here + 1, here + Width(k)) IN
         [value |-> CellsValue(IF BigEndian(k) THEN Reverse(cells) ELSE cells),
          here |-> here + Width(k)]

\* The words a write primitive hands to the call.
WriteFixedWords(arch, k, rwops, value) ==
    IF k \in Wide THEN Write64Words(arch, rwops, value)
    ELSE << uintptr(arch, rwops), uintptr(arch, value) >>

\* What the native function takes for its value parameter: the low digits of
\* the word for a Uint8, Uint16 or Uint32, the 64-bit argument for a Uint64.
NativeArgFixed(arch, k, words) ==
    IF k \in Wide THEN NativeArg64(arch, words, 2)
    ELSE words[2] % (2 ^ Width(k))

\* The return words of a native read: the value in the low digits of the
\* first word (in both words for a Uint64 on 386); the digits of the word
\* above a Uint8, Uint16 or Uint32 are not defined and hold `upper`.
ReadFixedWords(arch, k, v, upper) ==
    IF k \in Wide THEN ReturnWords64(arch, v)
    ELSE [r1 |-> uintptr(arch, v + upper * (2 ^ Width(k))), r2 |-> 0]

\* A read primitive that returns the word as it is.
ReadFixedReturnRaw(arch, k, r1, r2) == r1

\* uint8(ret), uint16(ret), uint32(ret); the 64-bit ones per architecture.
ReadFixedReturn(arch, k, r1, r2) ==
    IF k \in Wide THEN Read64Return(arch, r1, r2, <<>>).value
    ELSE r1 % (2 ^ Width(k))

\* The values a caller writes with a primitive.
Samples(k) == {1, (2 ^ Width(k)) - 2}

\* The cells of all seven primitives.
TotalCells == 5 + 6 * HalfBits
SmallCells == 3

NoStream ==
    [arch |-> "none", mem |-> <<>>, here |-> 0, sought |-> FALSE,
     written |-> <<>>, read |-> <<>>,
     last |-> [kind |-> "none", room |-> 0, ret |-> 0]]

\* rw, err := RWFromMem(make([]byte, n)), in a build for arch
MemStream(arch, n) ==
    /\ mrw.arch = "none"
    /\ mrw' = [NoStream EXCEPT !.arch = arch, !.mem = [j \in 1 .. n |-> 0]]
    /\ UNCHANGED <<watchVars, hintVars, opVars, marshalVars, decodeVars,
                   hostVars, raceVars, streamVars, tailVars>>

\* rw.WriteU8(value) ... rw.WriteLE64(value).  The caller uses the primitives
\* in the order of Kinds, each at most once, and may try any write that does
\* not fit.
WriteFixed(k, value) ==
    /\ mrw.arch # "none" /\ ~mrw.sought
    /\ IF mrw.here + Width(k) > Len(mrw.mem) \/ mrw.written = <<>>
       THEN TRUE
       ELSE KindIndex(k) > KindIndex(mrw.written[Len(mrw.written)].kind)
    /\ LET words == WriteFixedWords(mrw.arch, k, 1, value)
           n == nativeWriteFixed(mrw.mem, mrw.here, k,
                                 NativeArgFixed(mrw.arch, k, words))
           ret == ReturnWordsPtr(mrw.arch, n.ret).r1
       IN  mrw' = [mrw EXCEPT
                     !.mem = n.mem, !.here = n.here,
                     !.written = IF ret = 1
                                 THEN Append(@, [kind |-> k, value |-> value])
                                 ELSE @,
                     !.last = [kind |-> k, room |-> Len(mrw.mem) - mrw.here,
                               ret |-> ret]]
    /\ UNCHANGED <<watchVars, hintVars, opVars, marshalVars, decodeVars,
                   hostVars, raceVars, streamVars, tailVars>>

\* The native seek of a memory stream: the new position, unchanged when it
\* would lie outside the stream.
nativeSeek(mem, here, offset, whence) ==
    LET to == CASE whence = RW_SEEK_SET -> Signed64(offset)
                [] whence = RW_SEEK_CUR -> here + Signed64(offset)
                [] whence = RW_SEEK_END -> Len(mem) + Signed64(offset)
                [] OTHER -> 0 - 1
    IN  IF to >= 0 /\ to <= Len(mem) THEN to ELSE here

\* rw.Seek(0, RW_SEEK_SET)
SeekStart ==
    /\ mrw.arch # "none" /\ ~mrw.sought /\ mrw.written # <<>>
    /\ LET words == SeekWords(mrw.arch, 1, 0, RW_SEEK_SET) IN
       mrw' = [mrw EXCEPT
                 !.here = nativeSeek(mrw.mem, mrw.here,
                                     NativeArg64(mrw.arch, words, 2),
                                     words[Len(words)]),
                 !.sought = TRUE]
    /\ UNCHANGED <<watchVars, hintVars, opVars, marshalVars, decodeVars,
                   hostVars, raceVars, streamVars, tailVars>>

\* rw.ReadU8() ... rw.ReadLE64(), with the primitive that matches the next
\* value written.
ReadFixed(k, upper) ==
    /\ mrw.sought /\ Len(mrw.read) < Len(mrw.written)
    /\ k = mrw.written[Len(mrw.read) + 1].kind
    /\ LET n == nativeReadFixed(mrw.mem, mrw.here, k)
           rw == ReadFixedWords(mrw.arch, k, n.value, upper)
       IN  mrw' = [mrw EXCEPT
                     !.here = n.here,
                     !.read = Append(@, ReadFixedReturn(mrw.arch, k, rw.r1, rw.r2))]
    /\ UNCHANGED <<watchVars, hintVars, opVars, marshalVars, decodeVars,
                   hostVars, raceVars, streamVars, tailVars>>

----------------------------------------------------------------------------
(* SetEventFilter against the filter trampoline: statement by statement *)

SetIdle == [pc |-> "idle", filter |-> "nil"]

\* The events the native library hands to the filter.
FilteredEvents ==
    { [Type |-> t, Timestamp |-> 1,
       bytes |-> [File |-> NullPtr, WindowID |-> 0, rest |-> 42]] :
      t \in {USEREVENT, QUIT, KEYDOWN, MOUSEMOTION} }

\* The process has not been stopped by a panic in the trampoline.
FilterAlive == fcall.kind # "panic"

\* theSetEventFilterCallback: wrapEventFilterCallback(eventFilterCache, event,
\* nil), without a test of the cache; filter.FilterEvent on a nil filter
\* panics.
theSetEventFilterCallback(cache, e) ==
    IF cache = "nil" THEN Call("panic")
    ELSE wrapEventFilterCallback(cache, e, "nil")

\* The tests at the head of SetEventFilter: return, call the native function,
\* or go straight to the assignment.
SetEnter(filter) ==
    /\ FilterAlive /\ spc.pc = "idle"
    /\ spc' = IF eventFilterCache = "nil" /\ filter = "nil" THEN SetIdle
              ELSE IF (eventFilterCache = "nil") # (filter = "nil")
                   THEN [pc |-> "call", filter |-> filter]
                   ELSE [pc |-> "store", filter |-> filter]
    /\ UNCHANGED <<nativeFilter, fcall, watchVars, hintVars, opVars, marshalVars,
                   decodeVars, hostVars, raceVars, streamVars, memVars, allocVars, pureVars>>

\* setEventFilter.Call(setEventFilterCallbackPtr, 0) or setEventFilter.Call(0, 0)
SetNative ==
    /\ FilterAlive /\ spc.pc = "call"
    /\ nativeFilter' = (spc.filter # "nil")
    /\ spc' = [spc EXCEPT !.pc = "store"]
    /\ UNCHANGED <<fcall, watchVars, hintVars, opVars, marshalVars,
                   decodeVars, hostVars, raceVars, streamVars, memVars, allocVars, pureVars>>

\* eventFilterCache = filter
SetStore ==
    /\ FilterAlive /\ spc.pc = "store"
    /\ eventFilterCache' = spc.filter
    /\ spc' = SetIdle
    /\ UNCHANGED <<nativeFilter, fcall, callInMain, mainCalled, logOutput,
                   watchVars, hintVars, opVars, marshalVars, decodeVars,
                   raceVars, streamVars, memVars, allocVars, pureVars>>

\* The native library, with an event at hand on one of its threads, calls the
\* installed filter.
FilterTrampoline(e) ==
    /\ FilterAlive /\ nativeFilter
    /\ fcall' = theSetEventFilterCallback(eventFilterCache, e)
    /\ UNCHANGED <<nativeFilter, spc, watchVars, hintVars, opVars, marshalVars,
                   decodeVars, hostVars, raceVars, streamVars, memVars, allocVars, pureVars>>

----------------------------------------------------------------------------
(* AddEventWatch on several threads: newEventFilterCallbackContext statement
   by statement *)

Threads == {1, 2}

RegIdle == [pc |-> "idle", filter |-> "nil", handle |-> 0,
            fresh |-> TRUE, clash |-> FALSE]

RegRest == <<hintVars, opVars, marshalVars, decodeVars, hostVars, raceVars,
             streamVars, memVars, filterVars, pureVars>>

\* No AddEventWatch that chose the handle is still on its way: callers delete
\* the handles that a call has returned.
Returned(h) ==
    \A t \in Threads :
        rpc[t].pc \in {"inc", "unlock", "native"} => rpc[t].handle # h

\* A Lock that does not wait.
RegLockUnguarded(t, filter) ==
    /\ rpc[t].pc = "idle"
    /\ Cardinality(DOMAIN eventWatches) < MaxWatches
    /\ mutex' = t
    /\ rpc' = [rpc EXCEPT ![t] = [RegIdle EXCEPT !.pc = "loop", !.filter = filter]]
    /\ UNCHANGED <<watchVars, RegRest>>

\* lastEventWatchHandleMutex.Lock()
RegLock(t, filter) ==
    /\ rpc[t].pc = "idle" /\ mutex = 0
    /\ Cardinality(DOMAIN eventWatches) < MaxWatches
    /\ mutex' = t
    /\ rpc' = [rpc EXCEPT ![t] = [RegIdle EXCEPT !.pc = "loop", !.filter = filter]]
    /\ UNCHANGED <<watchVars, RegRest>>

\* for { if _, ok := eventWatches[lastEventWatchHandle]; !ok { break };
\*       lastEventWatchHandle++ }: one turn of the loop
RegLoop(t) ==
    /\ rpc[t].pc = "loop"
    /\ IF lastEventWatchHandle \in DOMAIN eventWatches
       THEN /\ lastEventWatchHandle' = (lastEventWatchHandle + 1) % NumHandles
            /\ UNCHANGED rpc
       ELSE /\ rpc' = [rpc EXCEPT ![t].pc = "store"]
            /\ UNCHANGED lastEventWatchHandle
    /\ UNCHANGED <<eventWatches, nativeWatchers, watchLive, watchDeleted, funcLive,
                   mutex, RegRest>>

\* e := &eventFilterCallbackContext{filter, lastEventWatchHandle, userdata}
\* eventWatches[lastEventWatchHandle] = e
\* `fresh`: the handle was not in the registry; `clash`: another live
\* registration has the handle.
RegStore(t) ==
    /\ rpc[t].pc = "store"
    /\ LET h == lastEventWatchHandle
           e == [filter |-> rpc[t].filter, handle |-> h, userdata |-> "test"]
       IN  /\ eventWatches' = Put(eventWatches, h, e)
           /\ rpc' = [rpc EXCEPT ![t].pc = "inc", ![t].handle = h,
                                 ![t].fresh = h \notin DOMAIN eventWatches,
                                 ![t].clash = h \in DOMAIN watchLive]
           /\ watchLive' = Put(watchLive, h, [filter |-> rpc[t].filter,
                                              userdata |-> "test"])
           /\ watchDeleted' = watchDeleted \ {h}
    /\ UNCHANGED <<lastEventWatchHandle, nativeWatchers, funcLive, mutex, RegRest>>

\* lastEventWatchHandle++
RegInc(t) ==
    /\ rpc[t].pc = "inc"
    /\ lastEventWatchHandle' = (lastEventWatchHandle + 1) % NumHandles
    /\ rpc' = [rpc EXCEPT ![t].pc = "unlock"]
    /\ UNCHANGED <<eventWatches, nativeWatchers, watchLive, watchDeleted, funcLive,
                   mutex, RegRest>>

\* return e, and the deferred lastEventWatchHandleMutex.Unlock()
RegUnlock(t) ==
    /\ rpc[t].pc = "unlock"
    /\ mutex' = IF mutex = t THEN 0 ELSE mutex
    /\ rpc' = [rpc EXCEPT ![t].pc = "native"]
    /\ UNCHANGED <<watchVars, RegRest>>

\* addEventWatch.Call(eventFilterCallbackPtr, uintptr(context.handle));
\* return context.handle
RegNative(t) ==
    /\ rpc[t].pc = "native"
    /\ nativeWatchers' = addEventWatchCall(nativeWatchers, rpc[t].handle)
    /\ rpc' = [rpc EXCEPT ![t].pc = "idle"]
    /\ UNCHANGED <<eventWatches, lastEventWatchHandle, watchLive, watchDeleted,
                   funcLive, mutex, RegRest>>

----------------------------------------------------------------------------
(* Destroy: the last-error text saved and put back *)

\* The byte '%', which begins a conversion in the format of SDL_SetError.
Percent == 37

\* What a conversion without an argument may print.
FormatGarbage == {<<>>, <<9>>}

\* SDL_SetError(fmt) with no further arguments: the text it leaves.  "%%" is
\* a '%'; '%' with a conversion character prints an argument that was not
\* passed; a '%' at the end prints nothing.
RECURSIVE Format(_, _)
Format(fmt, g) ==
    IF fmt = <<>> THEN <<>>
    ELSE IF Head(fmt) # Percent THEN <<Head(fmt)>> \o Format(Tail(fmt), g)
    ELSE IF Len(fmt) = 1 THEN <<>>
    ELSE IF fmt[2] = Percent THEN <<Percent>> \o Format(Tail(Tail(fmt)), g)
    ELSE g \o Format(Tail(Tail(fmt)), g)

\* setError.Call(&m[0]) with m = append([]byte(msg), 0)
setErrorCall(c, msg, g) ==
    [c EXCEPT !.trace = Append(@, [fn |-> "SDL_SetError", failed |-> FALSE]),
              !.text = Format(ScanToNul(CString(msg).bytes), g)]

\* SetError(err): the message of err, "" for nil
SetErrorResult(c, err, g) ==
    setErrorCall(c, IF err # NilError THEN err.msg ELSE <<>>, g)

SetError(err, g) == Done(SetErrorResult(Start("SetError", 1, NoSlice), err, g))

\* ClearError()
ClearErrorResult(c) ==
    [c EXCEPT !.trace = Append(@, [fn |-> "SDL_ClearError", failed |-> FALSE]),
              !.text = <<>>]

\* Renderer.Destroy, Texture.Destroy, Window.Destroy: the same body around
\* the native destroy function.
Destroy(fn, native, o, g) ==
    LET c0 == Start(fn, 1, NoSlice)
        c1 == Query(c0)                        \* lastErr := GetError()
        c2 == ClearErrorResult(c1)             \* ClearError()
        c3 == NativeCall(c2, native, o)        \* destroy...Call(...)
        c4 == Query(c3)                        \* err := GetError()
    IN  Done(IF c4.err # NilError THEN c4
             ELSE Return(SetErrorResult(c4, c1.err, g), 0, NilError))

RendererDestroy(o, g) == Destroy("RendererDestroy", "SDL_DestroyRenderer", o, g)
TextureDestroy(o, g) == Destroy("TextureDestroy", "SDL_DestroyTexture", o, g)
WindowDestroy(o, g) == Destroy("WindowDestroy", "SDL_DestroyWindow", o, g)

\* The texts a failing native call leaves.
NativeTexts == {<<1>>, <<1, 2>>, <<1, Percent, 2>>, <<Percent, Percent>>, <<2, Percent>>}

\* A destroy function returns nothing; it may set the last-error text.
DestroyOutcomes ==
    {NoOutcome} \cup {Outcome(TRUE, 0, m) : m \in ErrTexts}

----------------------------------------------------------------------------
(* Points and rectangles: EnclosePoints *)

\* int32 arithmetic: the result of an operation, wrapped to the width
Int32(v) == Signed32(v % Half)

Point(x, y) == [X |-> x, Y |-> y]
Rect(x, y, w, h) == [isnil |-> FALSE, X |-> x, Y |-> y, W |-> w, H |-> h]

\* var result Rect
ZeroRect == Rect(0, 0, 0, 0)

\* a nil *Rect
NilRect == [isnil |-> TRUE, X |-> 0, Y |-> 0, W |-> 0, H |-> 0]

\* Rect.Empty
RectEmpty(a) == a.isnil \/ a.W <= 0 \/ a.H <= 0

\* var minX, minY, maxX, maxY int32; added := false
NoMinMax == [added |-> FALSE, minX |-> 0, minY |-> 0, maxX |-> 0, maxY |-> 0]

\* "Populate the first point"
FirstPoint(val) ==
    [added |-> TRUE, minX |-> val.X, minY |-> val.Y, maxX |-> val.X, maxY |-> val.Y]

\* "Find mins and maxes"
FindMinMax(b, val) ==
    [b EXCEPT !.minX = IF val.X < b.minX THEN val.X ELSE @,
              !.maxX = IF val.X < b.minX THEN @ ELSE IF val.X > @ THEN val.X ELSE @,
              !.minY = IF val.Y < b.minY THEN val.Y ELSE @,
              !.maxY = IF val.Y < b.minY THEN @ ELSE IF val.Y > @ THEN val.Y ELSE @]

\* the loop over the points when clip is not nil
RECURSIVE ClipLoop(_, _, _)
ClipLoop(points, clip, b) ==
    IF points = <<>> THEN b
    ELSE LET val == Head(points)
             clipMinX == clip.X
             clipMinY == clip.Y
             clipMaxX == Int32(Int32(clip.X + clip.W) - 1)
             clipMaxY == Int32(Int32(clip.Y + clip.H) - 1)
         IN  IF val.X < clipMinX \/ val.X > clipMaxX \/ val.Y < clipMinY \/ val.Y > clipMaxY
             THEN ClipLoop(Tail(points), clip, b)
             ELSE ClipLoop(Tail(points), clip,
                           FindMinMax(IF ~b.added THEN FirstPoint(val) ELSE b, val))

\* the loop over the points when clip is nil
RECURSIVE PlainLoop(_, _, _)
PlainLoop(points, i, b) ==
    IF i >= Len(points) THEN b
    ELSE IF i = 0
         THEN PlainLoop(points, i + 1, FirstPoint(points[i + 1]))
         ELSE PlainLoop(points, i + 1, FindMinMax(b, points[i + 1]))

\* the rectangle built from the mins and maxes
EncloseResult(b) ==
    Rect(b.minX, b.minY, Int32(Int32(b.maxX - b.minX) + 1), Int32(Int32(b.maxY - b.minY) + 1))

\* EnclosePoints: (Rect, bool)
EnclosePointsResult(points, clip) ==
    IF Len(points) = 0 THEN [rect |-> ZeroRect, ok |-> FALSE]
    ELSE IF ~clip.isnil
         THEN IF RectEmpty(clip) THEN [rect |-> ZeroRect, ok |-> FALSE]
              ELSE [rect |-> EncloseResult(ClipLoop(points, clip, NoMinMax)), ok |-> TRUE]
         ELSE [rect |-> EncloseResult(PlainLoop(points, 0, NoMinMax)), ok |-> TRUE]

notPure == <<watchVars, hintVars, opVars, marshalVars, decodeVars, hostVars,
             raceVars, streamVars, memVars, filterVars, allocVars>>

EnclosePoints(points, clip) ==
    /\ LET r == EnclosePointsResult(points, clip) IN
       ecall' = [fn |-> "EnclosePoints", points |-> points, clip |-> clip,
                 rect |-> r.rect, ok |-> r.ok]
    /\ UNCHANGED <<notPure, vcall, lcall>>

\* The coordinates and rectangles the calls are made with: the ends of the
\* int32 range, and values around zero.
MinInt32 == 0 - (Half \div 2)
MaxInt32 == (Half \div 2) - 1
Coords == {MinInt32, 0, 1, MaxInt32}
Points == {Point(x, y) : x \in Coords, y \in {0, 1}} \cup {Point(0, MinInt32), Point(1, MaxInt32)}
MaxPoints == 2
PointSlices == UNION {[1..n -> Points] : n \in 0..MaxPoints}
Clips == {NilRect, Rect(0, 0, 2, 2), Rect(0, 0, 0, 1), Rect(MinInt32, 0, MaxInt32, 2),
          Rect(1, 0, MaxInt32, 1)}

----------------------------------------------------------------------------
(* Rect.IntersectLine, statement by statement *)

codeBottom == 1
codeTop == 2
codeLeft == 4
codeRight == 8

\* An out-code is kept as the set of its bits: code |= c adds c, and
\* outCode1&outCode2 is the intersection.
computeOutCode(rect, x, y) ==
    (IF y < rect.Y THEN {codeTop}
     ELSE IF y >= Int32(rect.Y + rect.H) THEN {codeBottom} ELSE {})
    \cup
    (IF x < rect.X THEN {codeLeft}
     ELSE IF x >= Int32(rect.X + rect.W) THEN {codeRight} ELSE {})

Abs(v) == IF v < 0 THEN 0 - v ELSE v

\* a / b of two integers, b # 0: the quotient truncated toward zero
Quo(a, b) ==
    IF (a < 0) = (b < 0) THEN Abs(a) \div Abs(b) ELSE 0 - (Abs(a) \div Abs(b))

\* u1 + ((u2-u1)*(v-v1))/(v2-v1) in int32: the value, whether the divisor is
\* zero, and whether any of the operations wrapped.
Along(u1, v1, u2, v2, v) ==
    LET du == Int32(u2 - u1)
        dv == Int32(v - v1)
        p == Int32(du * dv)
        d == Int32(v2 - v1)
        q == IF d = 0 THEN 0 ELSE Int32(Quo(p, d))
    IN  [val |-> Int32(u1 + q),
         zero |-> d = 0,
         wrapped |-> \/ du # u2 - u1 \/ dv # v - v1 \/ p # du * dv \/ d # v2 - v1
                     \/ (d # 0 /\ q # Quo(p, d)) \/ Int32(u1 + q) # u1 + q]

\* The point an end of the line is moved to, for the out-code of that end.
ClipPoint(code, l) ==
    LET rectX1 == l.a.X
        rectY1 == l.a.Y
        rectX2 == Int32(Int32(l.a.X + l.a.W) - 1)
        rectY2 == Int32(Int32(l.a.Y + l.a.H) - 1)
        y == IF codeTop \in code THEN rectY1 ELSE rectY2
        x == IF codeLeft \in code THEN rectX1 ELSE rectX2
    IN  IF codeTop \in code \/ codeBottom \in code
        THEN LET r == Along(l.x1, l.y1, l.x2, l.y2, y)
             IN  [x |-> r.val, y |-> y, zero |-> r.zero, wrapped |-> r.wrapped]
        ELSE LET r == Along(l.y1, l.x1, l.y2, l.x2, x)
             IN  [x |-> x, y |-> r.val, zero |-> r.zero, wrapped |-> r.wrapped]

\* the nearer of lo and hi when v is outside lo..hi
Clamp(v, lo, hi) == IF v < lo THEN lo ELSE IF v > hi THEN hi ELSE v

Line(x1, y1, x2, y2) == <<x1, y1, x2, y2>>

\* The count of iterations saturates here.
MaxIterations == 6

\* pc: "idle", "loop" (at the head of the for loop), "returned" or "panic";
\* out: what X1, Y1, X2, Y2 point to; wrapped: whether an operation of the
\* loop has wrapped so far.
LineIdle ==
    [pc |-> "idle", a |-> ZeroRect, x1 |-> 0, y1 |-> 0, x2 |-> 0, y2 |-> 0,
     outCode1 |-> {}, outCode2 |-> {}, out |-> Line(0, 0, 0, 0), ret |-> FALSE,
     iterations |-> 0, wrapped |-> FALSE]

LineReturn(l, out, ret) == [l EXCEPT !.pc = "returned", !.out = out, !.ret = ret]

\* Rect.IntersectLine up to the for loop: the shortcuts, then the out-codes.
IntersectLineEnter(a, X1, Y1, X2, Y2) ==
    /\ lcall.pc = "idle"
    /\ LET l == [LineIdle EXCEPT !.a = a, !.x1 = X1, !.y1 = Y1, !.x2 = X2, !.y2 = Y2,
                                 !.out = Line(X1, Y1, X2, Y2)]
           x1 == X1
           y1 == Y1
           x2 == X2
           y2 == Y2
           rectX1 == a.X
           rectY1 == a.Y
           rectX2 == Int32(Int32(a.X + a.W) - 1)
           rectY2 == Int32(Int32(a.Y + a.H) - 1)
       IN  lcall' =
             IF RectEmpty(a) THEN LineReturn(l, l.out, FALSE)
             ELSE IF /\ x1 >= rectX1 /\ x1 <= rectX2 /\ x2 >= rectX1 /\ x2 <= rectX2
                     /\ y1 >= rectY1 /\ y1 <= rectY2 /\ y2 >= rectY1 /\ y2 <= rectY2
             THEN LineReturn(l, l.out, TRUE)
             ELSE IF \/ (x1 < rectX1 /\ x2 < rectX1) \/ (x1 > rectX2 /\ x2 > rectX2)
                     \/ (y1 < rectY1 /\ y2 < rectY1) \/ (y1 > rectY2 /\ y2 > rectY2)
             THEN LineReturn(l, l.out, FALSE)
             ELSE IF y1 = y2
             THEN LineReturn(l, Line(Clamp(x1, rectX1, rectX2), Y1,
                                     Clamp(x2, rectX1, rectX2), Y2), TRUE)
             ELSE IF x1 = x2
             THEN LineReturn(l, Line(X1, Clamp(y1, rectY1, rectY2),
                                     X2, Clamp(y2, rectY1, rectY2)), TRUE)
             ELSE [l EXCEPT !.pc = "loop",
                            !.outCode1 = computeOutCode(a, x1, y1),
                            !.outCode2 = computeOutCode(a, x2, y2)]
    /\ UNCHANGED <<notPure, ecall, vcall>>

\* The for loop: its condition and, when it holds, one run of its body.
IntersectLineLoop ==
    /\ lcall.pc = "loop"
    /\ lcall' =
         IF lcall.outCode1 = {} /\ lcall.outCode2 = {}
         THEN LineReturn(lcall, Line(lcall.x1, lcall.y1, lcall.x2, lcall.y2), TRUE)
         ELSE IF lcall.outCode1 \cap lcall.outCode2 # {}
         THEN LineReturn(lcall, lcall.out, FALSE)
         ELSE LET first == lcall.outCode1 # {}
                  c == ClipPoint(IF first THEN lcall.outCode1 ELSE lcall.outCode2, lcall)
                  n == IF lcall.iterations < MaxIterations
                       THEN lcall.iterations + 1 ELSE MaxIterations
              IN  IF c.zero THEN [lcall EXCEPT !.pc = "panic"]
                  ELSE IF first
                  THEN [lcall EXCEPT !.x1 = c.x, !.y1 = c.y,
                                     !.outCode1 = computeOutCode(lcall.a, c.x, c.y),
                                     !.iterations = n,
                                     !.wrapped = @ \/ c.wrapped]
                  ELSE [lcall EXCEPT !.x2 = c.x, !.y2 = c.y,
                                     !.outCode2 = computeOutCode(lcall.a, c.x, c.y),
                                     !.iterations = n,
                                     !.wrapped = @ \/ c.wrapped]
    /\ UNCHANGED <<notPure, ecall, vcall>>

\* The rectangles and coordinates the calls are made with.
LineRects == {Rect(0, 0, 2, 2), Rect(0 - 1, 0, 3, 2), Rect(0, 0, 0, 1)}
LineCoords == {MinInt32, 0 - 2, 0, 1, MaxInt32}

----------------------------------------------------------------------------
(* The compiled version *)

MAJOR_VERSION == 2
MINOR_VERSION == 0
PATCHLEVEL == 9

VERSIONNUM(x, y, z) == x * 1000 + y * 100 + z

COMPILEDVERSION == VERSIONNUM(MAJOR_VERSION, MINOR_VERSION, PATCHLEVEL)

VERSION_ATLEAST(x, y, z) == COMPILEDVERSION >= VERSIONNUM(x, y, z)

VersionAtLeast(x, y, z) ==
    /\ vcall' = [fn |-> "VERSION_ATLEAST", x |-> x, y |-> y, z |-> z,
                 ret |-> VERSION_ATLEAST(x, y, z)]
    /\ UNCHANGED <<notPure, ecall, lcall>>

\* The versions asked about: components up to these.
MaxMajor == 3
MaxMinor == 11
MaxPatch == 10

----------------------------------------------------------------------------
(* Specifications *)

InitWatch ==
    /\ eventWatches = <<>>
    /\ lastEventWatchHandle = 0
    /\ nativeWatchers = <<>>
    /\ watchLive = <<>>
    /\ watchDeleted = {}
    /\ funcLive = {}

InitHints ==
    /\ hintCallbacks = <<>>
    /\ nativeHints = [n \in HintNames |-> [value |-> NullPtr, watched |-> FALSE]]
    /\ hintLive = <<>>
    /\ hintDeleted = {}

InitOp ==
    /\ op = Op("init")
    /\ calls = <<>>

InitMarshal ==
    /\ mcall = MCall("init", "amd64")
    /\ lastError = <<>>
    /\ rwcell = <<0, 0>>
    /\ rwwritten = NothingWritten

InitDecode ==
    /\ cevent = NoEvent
    /\ gevent = NoGoEvent

\* callInMain starts as the function that panics; nothing is cached.
InitHost ==
    /\ callInMain = "default"
    /\ eventFilterCache = "nil"
    /\ mainCalled = FALSE
    /\ logOutput = [f |-> "nil", data |-> "nil"]

InitRace ==
    /\ dpc = DelIdle
    /\ tpc = TrampolineIdle

InitStream ==
    /\ scall = SCall("init", 0, NoSlice)

InitMem ==
    /\ mrw = NoStream

InitFilter ==
    /\ nativeFilter = FALSE
    /\ spc = SetIdle
    /\ fcall = Call("none")

InitAlloc ==
    /\ mutex = 0
    /\ rpc = [t \in Threads |-> RegIdle]

InitPure ==
    /\ ecall = [fn |-> "init", points |-> <<>>, clip |-> NilRect, rect |-> ZeroRect, ok |-> FALSE]
    /\ vcall = [fn |-> "init", x |-> 0, y |-> 0, z |-> 0, ret |-> FALSE]
    /\ lcall = LineIdle

Init ==
    /\ InitWatch /\ InitHints /\ InitOp /\ InitMarshal /\ InitDecode /\ InitHost
    /\ InitRace /\ InitStream /\ InitMem /\ InitFilter /\ InitAlloc /\ InitPure

Next ==
    \/ \E f \in Filters, u \in UserData : AddEventWatch(f, u)
    \/ \E f \in FilterFuncs, u \in UserData : AddEventWatchFunc(f, u)
    \/ \E h \in Handles : DelEventWatch(h)
    \/ \E e \in WatchEvents : PushEvent(e)
    \/ \E e \in WatchEvents : PumpEvents(e)

Spec == Init /\ [][Next]_vars

NextHints ==
    \/ \E n \in HintNames, f \in HintCallbacks, d \in UserData : AddHintCallback(n, f, d)
    \/ \E n \in HintNames : DelHintCallback(n)
    \/ \E n \in HintNames, v \in HintValues : SetHint(n, v)

SpecHints == Init /\ [][NextHints]_vars

NextMarshal ==
    \/ \E a \in Archs, rw \in {0, 1}, off \in Int64Samples, w \in Whences,
          o \in PositionOutcomes : Seek(a, rw, off, w, o)
    \/ \E a \in Archs, o \in PositionOutcomes : Size(a, 1, o)
    \/ \E a \in Archs, rw \in {0, 1}, o \in PositionOutcomes : Tell(a, rw, o)
    \/ \E a \in Archs, i \in {0, 1}, id \in Int64Samples : GetTouchDevice(a, i, id)
    \/ \E a \in Archs, t \in Int64Samples, i \in {0, 1}, f \in {0} \cup Pointers :
          GetTouchFinger(a, t, i, f)
    \/ \E a \in Archs, bits \in {0, 1, Half, Full - 1}, flip \in {0, 1},
          o \in IntOutcomes, u \in Garbage : CopyEx(a, bits, flip, o, u)
    \/ \E a \in Archs, o \in SwapOutcomes, u \in Garbage : GLGetSwapInterval(a, o, u)
    \/ \E a \in Archs, f \in {0, 1}, o \in PointerOutcomes : SurfaceConvert(a, f, 0, o)
    \/ \E a \in Archs, f \in {0, 1}, o \in PointerOutcomes :
          SurfaceConvertFormat(a, f, 0, o)
    \/ \E a \in Archs, c \in {0, 1}, o \in IntOutcomes, u \in Garbage :
          SurfaceFillRect(a, 0, c, o, u)

SpecMarshal == Init /\ [][NextMarshal]_vars

NextHost ==
    \/ \E m \in Closures : Main(m)
    \/ \E f \in Closures : Do(f)
    \/ \E f \in LogFuncs : LogSetOutputFunction(f, "test")
    \/ LogGetOutputFunction
    \/ \E src \in {0, 1}, fr \in BOOLEAN : LoadFileRW(src, fr)
    \/ \E f \in {"nil", "f1"} : SetEventFilter(f)
    \/ \E e \in WatchEvents : PushEvent(e)
    \/ \E f \in FilterFuncs : AddEventWatchFunc(f, "test")
    \/ AddEventWatch("f1", "test")
    \/ AddHintCallback(<<1>>, "cb1", "test")

SpecHost == Init /\ [][NextHost]_vars

NextRegistry ==
    \/ \E f \in Filters : AddEventWatch(f, "test")
    \/ \E f \in FilterFuncs : AddEventWatchFunc(f, "test")
    \/ \E h \in Handles : DelEventWatch(h)
    \/ \E f \in Filters : FilterEvents(f, "test")
    \/ Quit

SpecRegistry == Init /\ [][NextRegistry]_vars

NextRace ==
    \/ \E f \in Filters : Alive /\ dpc.pc = "idle" /\ AddEventWatch(f, "test")
    \/ \E h \in Handles : DelLookup(h)
    \/ DelDeleteBegin
    \/ DelDeleteEnd
    \/ DelNative
    \/ \E i \in 1 .. MaxWatches : TrampolineEnter(i)
    \/ TrampolineLookup
    \/ \E e \in WatchEvents : TrampolineCall(e)

SpecRace == Init /\ [][NextRace]_vars

NextStream ==
    \/ \E o \in IntOutcomes : TextureQuery(o)
    \/ \E ol \in IntOutcomes, oq \in IntOutcomes : TextureLock(ol, oq)
    \/ \E mem \in Slices, o \in PointerOutcomes : RWFromMem(mem, o)
    \/ \E rw \in {0, 1}, o \in IntOutcomes : RWopsClose(rw, o)
    \/ \E rw \in {0, 1} : RWopsFree(rw)
    \/ \E rw \in {0, 1}, buf \in Slices, n \in 0 .. MaxLen :
          \E o \in CountOutcomes(n) : RWopsRead2(rw, buf, 1, n, o)
    \/ \E rw \in {0, 1}, buf \in Slices :
          \E o \in CountOutcomes(buf.len) : RWopsRead(rw, buf, o)
    \/ \E rw \in {0, 1}, buf \in Slices, n \in 0 .. MaxLen :
          \E o \in CountOutcomes(n) : RWopsWrite2(rw, buf, 1, n, o)
    \/ \E rw \in {0, 1}, buf \in Slices :
          \E o \in CountOutcomes(buf.len) : RWopsWrite(rw, buf, o)
    \/ \E a \in Archs, rw \in {0, 1}, o \in PositionOutcomes :
          RWopsSeek(a, rw, 0, RW_SEEK_SET, o)
    \/ \E a \in Archs, rw \in {0, 1}, o \in PositionOutcomes : RWopsSize(a, rw, o)
    \/ \E a \in Archs, rw \in {0, 1}, o \in PositionOutcomes : RWopsTell(a, rw, o)
    \/ \E a \in Archs, buf \in Slices, o \in IntOutcomes, u \in Garbage :
          AudioStreamPut(a, buf, o, u)
    \/ \E a \in Archs, points \in Slices, o \in IntOutcomes, u \in Garbage :
          RendererDrawLines(a, points, o, u)
    \/ \E data \in Slices : \E o \in CountOutcomes(data.len) : DequeueAudio(data, o)

SpecStream == Init /\ [][NextStream]_vars

NextMem ==
    \/ \E a \in Archs, n \in {SmallCells, TotalCells} : MemStream(a, n)
    \/ \E k \in Range(Kinds) : \E v \in Samples(k) : WriteFixed(k, v)
    \/ SeekStart
    \/ \E k \in Range(Kinds), u \in Garbage : ReadFixed(k, u)

SpecMem == Init /\ [][NextMem]_vars

NextFilter ==
    \/ \E f \in {"nil"} \cup Filters : SetEnter(f)
    \/ SetNative
    \/ SetStore
    \/ \E e \in FilteredEvents : FilterTrampoline(e)

SpecFilter == Init /\ [][NextFilter]_vars

NextAlloc ==
    \/ \E t \in Threads, f \in Filters : RegLock(t, f)
    \/ \E t \in Threads : RegLoop(t)
    \/ \E t \in Threads : RegStore(t)
    \/ \E t \in Threads : RegInc(t)
    \/ \E t \in Threads : RegUnlock(t)
    \/ \E t \in Threads : RegNative(t)
    \/ \E h \in Handles : Returned(h) /\ DelEventWatch(h)

SpecAlloc == Init /\ [][NextAlloc]_vars

NextDestroy ==
    \/ \E o \in DestroyOutcomes, g \in FormatGarbage : RendererDestroy(o, g)
    \/ \E o \in DestroyOutcomes, g \in FormatGarbage : TextureDestroy(o, g)
    \/ \E o \in DestroyOutcomes, g \in FormatGarbage : WindowDestroy(o, g)
    \/ \E s \in NativeTexts, g \in FormatGarbage : SetError(NativeError(s), g)
    \/ \E s \in NativeTexts : RWFromMem(Slice(FALSE, 1), Outcome(TRUE, 0, s))

SpecDestroy == Init /\ [][NextDestroy]_vars

NextEnclose ==
    \E points \in PointSlices, clip \in Clips : EnclosePoints(points, clip)

SpecEnclose == Init /\ [][NextEnclose]_vars

NextLine ==
    \/ \E a \in LineRects, X1 \in LineCoords, Y1 \in LineCoords,
          X2 \in LineCoords, Y2 \in LineCoords : IntersectLineEnter(a, X1, Y1, X2, Y2)
    \/ IntersectLineLoop

\* The loop runs on one thread that is never held up.
SpecLine == Init /\ [][NextLine]_vars /\ WF_vars(IntersectLineLoop)

NextVersion ==
    \E x \in 0..MaxMajor, y \in 0..MaxMinor, z \in 0..MaxPatch : VersionAtLeast(x, y, z)

SpecVersion == Init /\ [][NextVersion]_vars

NextRW ==
    \/ \E a \in Archs, rw \in {0, 1}, v \in U64Samples : WriteLE64(a, rw, v)
    \/ \E a \in Archs, rw \in {0, 1}, v \in U64Samples : WriteBE64(a, rw, v)
    \/ \E a \in Archs, rw \in {0, 1} : ReadLE64(a, rw)
    \/ \E a \in Archs, rw \in {0, 1} : ReadBE64(a, rw)
    \/ \E a \in Archs, i \in {0, 1}, id \in Int64Samples : GetTouchDevice(a, i, id)

SpecRW == Init /\ [][NextRW]_vars

NextDecode == \E cev \in DecodeRecords : Decode(cev)

SpecDecode == Init /\ [][NextDecode]_vars

----------------------------------------------------------------------------
(* Claims on the event watches (Spec) *)

CallsOf(h) == {i \in 1 .. Len(calls) : calls[i].handle = h}

\* C1: once AddEventWatch has returned handle h and DelEventWatch(h) has been
\* called, no later event delivery invokes the trampoline for h, so the
\* filter registered under h is not invoked again; and every handle that
\* AddEventWatch returned and that was not deleted still has its filter
\* invoked, with its userdata, by every event delivery.
C1_DeletedWatchSilenced ==
    op.name = "PumpEvents" =>
        /\ \A i \in 1 .. Len(calls) :
              calls[i].kind = "FilterEvent" /\ calls[i].handle \notin watchDeleted
        /\ \A h \in DOMAIN watchLive :
              \E i \in CallsOf(h) :
                  /\ calls[i].fn = watchLive[h].filter
                  /\ calls[i].userdata = watchLive[h].userdata

\* An event is delivered after one watch was deleted while another is live.
C1_Witness ==
    /\ op.name = "PumpEvents"
    /\ watchDeleted # {}
    /\ DOMAIN watchLive # {}
    /\ Len(calls) = Cardinality(DOMAIN watchLive)

\* C8: after AddEventWatch(filter, userdata) has returned, each PushEvent(e)
\* invokes filter.FilterEvent with an event equal to e and the userdata of
\* the registration, before PushEvent returns.
C8_PushEventInvokesWatch ==
    op.name = "PushEvent" =>
        \A h \in DOMAIN watchLive :
            \E i \in 1 .. Len(calls) :
                /\ calls[i].fn = watchLive[h].filter
                /\ calls[i].userdata = watchLive[h].userdata
                /\ calls[i].event = goEvent(op.event)

\* C9: AddEventWatchFunc(fn, userdata) registers fn as an event watch: until
\* DelEventWatch is called with the handle it returned, each event pushed or
\* delivered invokes fn with that event and the given userdata.
C9_FuncWatchInvoked ==
    op.name \in {"PushEvent", "PumpEvents"} =>
        \A r \in funcLive :
            \E i \in 1 .. Len(calls) :
                /\ calls[i].fn = r.fn
                /\ calls[i].userdata = r.userdata
                /\ calls[i].event = goEvent(op.event)

----------------------------------------------------------------------------
(* Claims on the hint callbacks (SpecHints) *)

LiveHintCallbacks == {hintLive[n].callback : n \in DOMAIN hintLive}

\* C2: after AddHintCallback(N, fn, data) followed by DelHintCallback(N), no
\* operation invokes a handler for hint N, and none invokes fn at all unless
\* fn has been registered again: no later change of N or of another hint
\* reaches the deleted registration.
C2_DeletedHintSilenced ==
    \A d \in hintDeleted :
        \A i \in 1 .. Len(calls) :
            /\ calls[i].name # d.name
            /\ d.callback \notin LiveHintCallbacks => calls[i].fn # d.callback

\* Hint N is changed after its (real) callback was deleted.
C2_Witness ==
    /\ op.name = "SetHint"
    /\ op.changed
    /\ \E d \in hintDeleted : d.name = op.hint /\ d.callback # "nil"

HintCall(fn, data, name, old, new) ==
    [Call("HintCallback") EXCEPT !.fn = fn, !.userdata = data, !.name = name,
                                 !.old = old, !.new = new]

\* C10: registering fn for hint N invokes fn once with (data, N, v, v) for
\* the current value v; while the registration stands, every change of N from
\* old to new invokes fn exactly once with (data, N, old, new); and a change
\* of a hint with another name invokes no handler registered for N.
C10_HintCallbackInvoked ==
    /\ (op.name = "AddHintCallback" /\ op.filter # "nil") =>
          calls = << HintCall(op.filter, op.userdata, op.hint, op.value, op.value) >>
    /\ (op.name = "SetHint" /\ op.changed /\ op.hint \in DOMAIN hintLive
           /\ hintLive[op.hint].callback # "nil") =>
          calls = << HintCall(hintLive[op.hint].callback, hintLive[op.hint].data,
                              op.hint, op.old, op.value) >>
    /\ op.name = "SetHint" =>
          \A i \in 1 .. Len(calls) : calls[i].name = op.hint

\* A watched hint is changed from one set value to another while a callback
\* is registered for the other hint name too.
C10_Witness ==
    /\ op.name = "SetHint"
    /\ op.changed
    /\ op.old # op.value
    /\ Len(calls) = 1
    /\ Cardinality(DOMAIN hintLive) = 2

----------------------------------------------------------------------------
(* Claims on the wrappers (SpecMarshal, SpecRW) *)

SentinelWrappers ==
    {"Seek", "Size", "Tell", "CopyEx", "Surface.Convert", "Surface.ConvertFormat",
     "Surface.FillRect"}

\* C3: for every wrapper whose native function reports failure by a sentinel
\* (0/null, negative, all ones), a native failure makes the wrapper return a
\* non-nil error whose message is the native last-error text at the time of
\* the failure, and a native success makes it return a nil error.
C3_SentinelError ==
    (mcall.called /\ mcall.fn \in SentinelWrappers) =>
        IF mcall.failed
        THEN mcall.err = NativeError(mcall.text)
        ELSE mcall.err = NilError

\* C4: on 386 a 64-bit value written as the words uint32(v), uint32(v>>32)
\* and read back as uint64(r2)<<32 + uint64(r1) is v, and a two-word native
\* result is returned with both its halves.
C4_SplitJoinIdentity ==
    /\ (mcall.called /\ mcall.arch = "386" /\ rwwritten.arch = "386"
          /\ \/ mcall.fn = "ReadLE64" /\ rwwritten.order = "LE"
             \/ mcall.fn = "ReadBE64" /\ rwwritten.order = "BE") =>
          mcall.value = rwwritten.value
    /\ (mcall.called /\ mcall.arch = "386" /\ mcall.fn = "GetTouchDevice") =>
          mcall.value = Signed64(mcall.native)

\* A value whose halves are both non-zero and differ, or one of all ones, is
\* read back on 386 after it was written on 386 in the same byte order.
C4_Witness ==
    /\ mcall.called /\ mcall.arch = "386" /\ rwwritten.arch = "386"
    /\ mcall.fn = "ReadLE64" /\ rwwritten.order = "LE"
    /\ rwwritten.value \in {Full - 1, MaxInt64, Half + 2}
    /\ mcall.r1 # mcall.r2 \/ mcall.value = Full - 1

\* The words of a call by the rule of the claim: a 64-bit argument is two
\* words, low then high, on 386 and one word on amd64; every other argument
\* is one word; the order is that of the native signature.
RECURSIVE ExpectedWords(_, _)
ExpectedWords(arch, sig) ==
    IF sig = <<>> THEN <<>>
    ELSE LET a == Head(sig)
             w == IF a.bits = 64
                  THEN IF arch = "386"
                       THEN << (a.v % Full) % Half, (a.v % Full) \div Half >>
                       ELSE << a.v % Full >>
                  ELSE << uintptr(arch, a.v) >>
         IN  w \o ExpectedWords(arch, Tail(sig))

\* C5: on 386 every 64-bit argument is passed as two adjacent words, the low
\* 32 bits first, and on amd64 as one word, the other arguments in place.
C5_ArgumentWords ==
    mcall.called => mcall.words = ExpectedWords(mcall.arch, mcall.sig)

OtherArch(arch) == IF arch = "386" THEN "amd64" ELSE "386"

\* What the variant of a wrapper for `arch` returns for a native 64-bit result.
Return64(fn, arch, native, text) ==
    LET rw == ReturnWords64(arch, native) IN
    CASE fn = "Seek" -> SeekReturn(arch, rw.r1, rw.r2, text)
      [] fn = "Size" -> SizeReturn(arch, rw.r1, rw.r2, text)
      [] fn = "GetTouchDevice" -> GetTouchDeviceReturn(arch, rw.r1, rw.r2, text)

\* C6: for the same native 64-bit result the 386 and the amd64 variant of a
\* function return the same value and error: no result loses its high half.
C6_VariantsAgree ==
    (mcall.called /\ mcall.fn \in {"Seek", "Size", "GetTouchDevice"}) =>
        Result(mcall.value, mcall.err) =
            Return64(mcall.fn, OtherArch(mcall.arch), mcall.native, mcall.text)

----------------------------------------------------------------------------
(* Claims on the event decoder (SpecDecode) *)

\* The shape the native library's tag table gives a record.  The native
\* table numbers the finger events consecutively (down, up, motion).
NativeShape(t) ==
    IF t = FINGERUP + 1 THEN "TouchFingerEvent"
    ELSE IF t = FINGERMOTION THEN "CommonEvent"
    ELSE goEvent([NoEvent EXCEPT !.Type = t]).shape

\* C7: goEvent gives a record the shape of its tag for every tag of the
\* native table and CommonEvent for every other tag; the result carries the
\* record's tag and timestamp and, viewed as the shape, the record's bytes; a
\* drop event carries the window id and the string behind the record's
\* pointer.
C7_ShapeByTag ==
    gevent.shape # "none" =>
        /\ gevent.shape = NativeShape(cevent.Type)
        /\ gevent.Type = cevent.Type
        /\ gevent.Timestamp = cevent.Timestamp
        /\ IF gevent.shape = "DropEvent"
           THEN /\ gevent.WindowID = cevent.bytes.WindowID
                /\ gevent.File = sdlToGoString(cevent.bytes.File)
           ELSE gevent.view = cevent.bytes

----------------------------------------------------------------------------
(* Claims on Main, Do and the unimplemented functions (SpecHost) *)

\* C11: Main(m) runs m, and a Do(f) issued once Main has been entered runs f
\* exactly once, returning after f without a panic.
C11_MainRunsAndDoDispatches ==
    /\ op.name = "Main" =>
          \E i \in 1 .. Len(calls) : calls[i].kind = "closure" /\ calls[i].fn = op.filter
    /\ (op.name = "Do" /\ op.entered) =>
          /\ op.err = "nil"
          /\ calls = << [Call("closure") EXCEPT !.fn = op.filter] >>

\* C12: a Do(f) made when Main has not been entered never runs f and panics.
C12_DoBeforeMainPanics ==
    (op.name = "Do" /\ ~op.entered) =>
        /\ op.err = "panic"
        /\ calls = <<>>

\* Do is called before any call of Main.
C12_Witness ==
    /\ op.name = "Do"
    /\ ~op.entered
    /\ ~mainCalled
    /\ op.err = "panic"

Unimplemented ==
    {"PushEvent", "AddEventWatchFunc", "LogSetOutputFunction",
     "LogGetOutputFunction", "Main", "LoadFileRW"}

\* The results of an unimplemented function are the zero values of their types.
ZeroResults(o) ==
    CASE o.name = "PushEvent" -> ~o.filtered /\ o.err = "nil"
      [] o.name = "AddEventWatchFunc" -> o.handle = 0
      [] o.name = "LogGetOutputFunction" -> o.ret = <<"nil", "nil">>
      [] o.name = "LoadFileRW" -> o.ret = << <<>>, 0 >>
      [] OTHER -> TRUE

C18_LogOutputRoundTrip ==
    (op.name = "LogGetOutputFunction" /\ logOutput.f # "nil") =>
        op.ret = <<logOutput.f, logOutput.data>>

----------------------------------------------------------------------------
(* Claims on the registry of event watches (SpecRegistry) *)

\* The handles a registration returned that were not passed to DelEventWatch.
ReturnedHandles == DOMAIN watchLive \cup {r.handle : r \in funcLive}

\* C19: the registry of event watches holds an entry for each handle that a
\* registration returned and that was not passed to DelEventWatch since, and
\* no other entry; Quit removes none.
C19_RegistryIsLiveHandles ==
    /\ DOMAIN eventWatches = ReturnedHandles
    /\ \A h \in DOMAIN eventWatches : eventWatches[h].handle = h

----------------------------------------------------------------------------
(* Claims on DelEventWatch running against the trampoline (SpecRace) *)

\* C20: nothing orders the trampoline on the native thread and DelEventWatch
\* on another: while the trampoline is under way DelEventWatch can go on to
\* remove the entry, and once the entry is being removed or is removed, and
\* until the native unregistration, the trampoline can be entered for that
\* handle and can read the registry.
C20_NothingOrdersDeleteAndTrampoline ==
    /\ (Alive /\ dpc.pc = "found" /\ tpc.pc \in {"entered", "looked"}) =>
          ENABLED DelDeleteBegin
    /\ (Alive /\ dpc.pc \in {"deleting", "deleted"} /\ tpc.pc = "entered") =>
          ENABLED TrampolineLookup
    /\ (Alive /\ dpc.pc \in {"deleting", "deleted"} /\ tpc.pc = "idle") =>
          \E i \in 1 .. Len(nativeWatchers) :
              nativeWatchers[i] = dpc.handle /\ ENABLED TrampolineEnter(i)

\* The trampoline was invoked with handle h and read the registry after
\* DelEventWatch(h) removed the entry and before the native unregistration.
C20_Witness ==
    /\ tpc.pc = "looked"
    /\ tpc.at = "deleted"
    /\ dpc.pc = "deleted"
    /\ tpc.handle = dpc.handle
    /\ tpc.context = NoContext
    /\ \E i \in 1 .. Len(nativeWatchers) : nativeWatchers[i] = dpc.handle

----------------------------------------------------------------------------
(* Native calls of the wrappers: C13, C14, C15 *)

\* C13: when a wrapper returns the result of a last-error query after one of
\* its native calls has failed, that query is the native call made right
\* after the failing one: no native call lies between the two.
C13_QueryFollowsFailingCall ==
    \A f \in DOMAIN scall.trace :
        (scall.trace[f].failed /\ scall.returned > f) => scall.returned = f + 1

\* The error-returning operations of a data stream, and the operations that
\* take a buffer.
StreamOps == {"Close", "Free", "Read", "Read2", "Seek", "Size", "Tell", "Write", "Write2"}
BufferOps == {"RWFromMem", "Read2", "Write2"}

\* C14: a data-stream operation on a nil stream, and RWFromMem, Read2 and
\* Write2 on an empty buffer, return ErrInvalidParameters and make no native
\* call, the last-error query included.
C14_NullStreamOrEmptyBuffer ==
    (\/ scall.fn \in StreamOps /\ scall.handle = 0
     \/ scall.fn \in BufferOps /\ scall.slice.len = 0)
        => /\ scall.err = ErrInvalidParameters
           /\ scall.trace = <<>>
           /\ scall.panic = "none"

\* The wrappers of the model that take a slice.
SliceWrappers ==
    {"RWFromMem", "Read", "Read2", "Write", "Write2",
     "AudioStreamPut", "DrawLines", "DequeueAudio"}

\* C15: a wrapper called with a slice of length 0, nil or not, does not index
\* the slice: it returns nil or ErrInvalidParameters without a native call and
\* without a panic.
C15_EmptySliceNeverIndexed ==
    (scall.fn \in SliceWrappers /\ scall.slice.len = 0)
        => /\ scall.panic = "none"
           /\ scall.trace = <<>>
           /\ scall.err \in {NilError, ErrInvalidParameters}
           /\ scall.value = 0

----------------------------------------------------------------------------
(* The memory stream: C17 *)

\* C17: the values read back from a memory stream after a seek to its start,
\* with the primitives that wrote them and in the same order, are the values
\* written, on both architectures; a fixed-width write returns 1 when the
\* stream has room for it and 0 when the stream is full.
C17_FixedWidthRoundTrip ==
    /\ \A i \in 1 .. Len(mrw.read) : mrw.read[i] = mrw.written[i].value
    /\ mrw.last.kind # "none" =>
          /\ mrw.last.room >= Width(mrw.last.kind) => mrw.last.ret = 1
          /\ mrw.last.room = 0 => mrw.last.ret = 0

\* All seven primitives were written on 386, a write on the full stream was
\* tried, and all seven values were read back.
C17_Witness ==
    /\ mrw.arch = "386"
    /\ Len(mrw.written) = Len(Kinds)
    /\ Len(mrw.read) = Len(Kinds)
    /\ mrw.last.room = 0 /\ mrw.last.ret = 0

----------------------------------------------------------------------------
(* The event filter: C21 *)

\* C21: the native event filter is installed exactly while eventFilterCache
\* is non-nil, at every step of every SetEventFilter call.
C21_FilterInstalledIffCached ==
    nativeFilter <=> (eventFilterCache # "nil")

----------------------------------------------------------------------------
(* Handles of concurrent registrations: C22 *)

\* C22: the handle newEventFilterCallbackContext chooses was not in the
\* registry when the context was stored, the context lies under its own
\* handle, and no handle is given to a registration while another live
\* registration has it, also when several threads register at once.
C22_HandlesAreFresh ==
    /\ \A t \in Threads :
          rpc[t].pc \in {"inc", "unlock", "native"} =>
              rpc[t].fresh /\ ~rpc[t].clash
    /\ \A h \in DOMAIN eventWatches : eventWatches[h].handle = h
    /\ \A t, u \in Threads :
          (t # u /\ rpc[t].pc \in {"inc", "unlock", "native"}
                 /\ rpc[u].pc \in {"inc", "unlock", "native"})
              => rpc[t].handle # rpc[u].handle

\* One thread has its handle and has left the lock, the other is inside the
\* search for a handle, and the counter has wrapped around to a handle that
\* was given before.
C22_Witness ==
    \E t, u \in Threads :
        /\ rpc[t].pc = "native" /\ rpc[u].pc \in {"loop", "store"}
        /\ mutex = u
        /\ rpc[t].handle \in watchDeleted \cup DOMAIN watchLive
        /\ lastEventWatchHandle <= rpc[t].handle

----------------------------------------------------------------------------
(* Destroy and the last-error text: C23 *)

Destroys == {"RendererDestroy", "TextureDestroy", "WindowDestroy"}

\* C23: when the native destroy function sets no error text, Destroy returns
\* nil and the last-error text after it is the text before it.
C23_DestroyRestoresLastError ==
    (scall.fn \in Destroys /\ ~scall.trace[3].failed)
        => scall.err = NilError /\ scall.text = scall.before

----------------------------------------------------------------------------
(* errorFromInt(int(ret)): C24 *)

\* The wrappers of SpecMarshal whose error is errorFromInt(int(ret)).
ErrorFromIntWrappers == {"CopyEx", "GLGetSwapInterval"}

\* The native 32-bit int result of the last call.
NativeInt32 == Signed32(mcall.native % Half)

\* C24: on both architectures a negative native int result yields a non-nil
\* error and a non-negative one yields nil.
C24_SignOfNativeIntKept ==
    (mcall.called /\ mcall.fn \in ErrorFromIntWrappers) =>
        IF NativeInt32 < 0 THEN mcall.err # NilError ELSE mcall.err = NilError

----------------------------------------------------------------------------
(* EnclosePoints: C25 *)

\* The input points that lie inside clip: all of them when clip is nil.
InClip(p, clip) ==
    clip.isnil \/ (/\ clip.X <= p.X /\ p.X < clip.X + clip.W
                   /\ clip.Y <= p.Y /\ p.Y < clip.Y + clip.H)

Enclosed == {ecall.points[i] : i \in {j \in 1..Len(ecall.points) : InClip(ecall.points[j], ecall.clip)}}

\* C25: when EnclosePoints returns true, every input point inside clip is
\* inside the returned rectangle, and each of the rectangle's four edges
\* passes through such a point.
C25_EnclosingRectIsMinimal ==
    (ecall.fn = "EnclosePoints" /\ ecall.ok) =>
        /\ \A p \in Enclosed :
              /\ ecall.rect.X <= p.X /\ p.X < ecall.rect.X + ecall.rect.W
              /\ ecall.rect.Y <= p.Y /\ p.Y < ecall.rect.Y + ecall.rect.H
        /\ \E p \in Enclosed : p.X = ecall.rect.X
        /\ \E p \in Enclosed : p.X = ecall.rect.X + ecall.rect.W - 1
        /\ \E p \in Enclosed : p.Y = ecall.rect.Y
        /\ \E p \in Enclosed : p.Y = ecall.rect.Y + ecall.rect.H - 1

----------------------------------------------------------------------------
(* The compiled version: C26 *)

\* (a, b, c) is at least as new as (x, y, z): major, then minor, then patch.
AtLeastAsNew(a, b, c, x, y, z) ==
    \/ a > x
    \/ a = x /\ b > y
    \/ a = x /\ b = y /\ c >= z

\* C26: VERSION_ATLEAST(x, y, z) is true exactly when the compiled version is
\* at least as new as (x, y, z).
C26_VersionAtLeastIsLexicographic ==
    (vcall.fn = "VERSION_ATLEAST") =>
        (vcall.ret <=> AtLeastAsNew(MAJOR_VERSION, MINOR_VERSION, PATCHLEVEL,
                                    vcall.x, vcall.y, vcall.z))

----------------------------------------------------------------------------
(* DelEventWatch and the handle of a registration: C27 *)

Registrations == {"AddEventWatch", "AddEventWatchFunc"}

\* The handles of the watches that the registration call `o` created.
CreatedBy(o) == IF o.name = "AddEventWatch" THEN {o.handle} ELSE {}

\* How often the native library calls the trampoline with handle h.
RECURSIVE Occurrences(_, _)
Occurrences(seq, h) ==
    IF seq = <<>> THEN 0
    ELSE (IF Head(seq) = h THEN 1 ELSE 0) + Occurrences(Tail(seq), h)

\* A registration call has returned a handle and the next call deletes it.
DeletesReturnedHandle ==
    /\ op.name \in Registrations
    /\ op'.name = "DelEventWatch"
    /\ op'.handle = op.handle

\* C27: deleting the handle that a registration call returned leaves every
\* watch created by a different registration call in the registry and in
\* the native library's list.
C27_DelRemovesOnlyItsRegistration ==
    [][DeletesReturnedHandle =>
          \A k \in DOMAIN eventWatches \ CreatedBy(op) :
              /\ k \in DOMAIN eventWatches'
              /\ eventWatches'[k] = eventWatches[k]
              /\ Occurrences(nativeWatchers', k) = Occurrences(nativeWatchers, k)]_vars

----------------------------------------------------------------------------
(* The clipping loop of Rect.IntersectLine: C28 *)

\* C28: the clipping loop terminates: once entered, it is left after
\* finitely many iterations, with both out-codes zero or sharing a bit.
C28_ClippingLoopTerminates ==
    (lcall.pc = "loop") ~> (lcall.pc = "returned")

============================================================================
